---- MODULE Spec2Model ----
(***************************************************************************)
(* ReFundly (refund-reminders-pro): the return-record lifecycle.           *)
(*                                                                         *)
(* The client (src/pages/Index.tsx with the AddReturnDialog,               *)
(* EditReturnDialog and ReturnDetailDialog components) keeps an in-memory  *)
(* list of ReturnItem and mirrors it to the `returns` table of the hosted  *)
(* store (supabase/migrations).  Every handler is asynchronous: it captures*)
(* the list of the render it was created in, sends a request, and applies  *)
(* the answer to the captured list when the request completes.             *)
(*                                                                         *)
(* Time is counted in ticks; a calendar day has TicksPerDay ticks.  A      *)
(* JavaScript Date is an instant (a tick count, UTC); the browser's time   *)
(* zone is tz ticks ahead of UTC.  A `date` column of the store is a day   *)
(* number.  Prices are in cents (the form's number input has step 0.01).   *)
(***************************************************************************)
EXTENDS Integers, Sequences, FiniteSets, TLC

VARIABLES
    now,        \* the current instant (new Date()), in ticks
    tz,         \* the browser's offset from UTC, in ticks (fixed in a run)
    db,         \* the `returns` table: row id -> row
    nextId,     \* the next id the store assigns (gen_random_uuid)
    returns,    \* Index.tsx `returns` state: sequence of ReturnItem
    ops,        \* the asynchronous handler invocations in flight
    draft,      \* the form data that the validation was last applied to
    ev          \* what the last step showed the user: its toast, or nothing

vars == <<now, tz, db, nextId, returns, ops, draft, ev>>

(***************************************************************************)
(* Bounds of the model.                                                    *)
(***************************************************************************)
MaxTz == 1          \* time zones range over -MaxTz .. MaxTz ticks
MaxDay == 3         \* calendar days the user can enter: 1 .. MaxDay
MaxOps == 2         \* handler invocations in flight at once
MaxRows == 1        \* rows ever created in the lifecycle specification
MaxRace == 2        \* creates in flight at once near the record limit

(***************************************************************************)
(* Program constants.                                                      *)
(***************************************************************************)
ReturnLimit == 25           \* check_return_limit / handleSubmit: 25 per user
MaxNameLen == 100           \* returnSchema: storeName max(100)
MaxPrice == 99999999        \* returnSchema: price max(999999.99), in cents
ReminderDays == 3           \* ReturnCard: daysSinceReturned >= 3
DueSoonDays == 3            \* notifications: threeDaysFromNow
MaxDimension == 1200        \* AddReturnDialog.handleImageUpload: maxDimension
MaxWidth == 1200            \* EditReturnDialog.compressImage: maxWidth
AddMaxSize == 5             \* AddReturnDialog.handleImageUpload: 5 MB
EditMaxSize == 10           \* EditReturnDialog.handleImageUpload: 10 MB
MaxImageLen == 2            \* handleAddReturn: receiptImage.length, 2 MB

TicksPerDay == MaxTz + 1
NULL == 0 - 1               \* null / undefined / "" of an optional field
NaN == 0 - 2                \* parseFloat of a text that is no number
NoImage == <<>>             \* no picture: "", null or undefined

\* A picture as a data URL: <<width, height, length in MB>>.
ImageLen(img) == IF img = NoImage THEN 0 ELSE img[3]

(***************************************************************************)
(* Dates.                                                                  *)
(***************************************************************************)
\* The local calendar day an instant falls on (date-fns format 'yyyy-MM-dd').
LocalDay(t) == (t + tz) \div TicksPerDay

\* The Date a calendar widget or `new Date(y, m, d)` gives: local midnight.
LocalMidnight(day) == day * TicksPerDay - tz

\* d.setHours(0, 0, 0, 0)
SetHours0(t) == LocalMidnight(LocalDay(t))

\* d.toISOString().split('T')[0]: the UTC calendar day of the instant.
ToISODate(t) == t \div TicksPerDay

\* new Date('yyyy-mm-dd'): a date-only ISO string is UTC midnight.
ParseISODate(day) == day * TicksPerDay

OptToISODate(t) == IF t = NULL THEN NULL ELSE ToISODate(t)
OptParseISODate(day) == IF day = NULL THEN NULL ELSE ParseISODate(day)

(***************************************************************************)
(* Text: a store name is a sequence of characters.                         *)
(***************************************************************************)
RECURSIVE TrimLeft(_)
TrimLeft(s) == IF s # <<>> /\ Head(s) = " " THEN TrimLeft(Tail(s)) ELSE s

RECURSIVE TrimRight(_)
TrimRight(s) ==
    IF s # <<>> /\ s[Len(s)] = " " THEN TrimRight(SubSeq(s, 1, Len(s) - 1)) ELSE s

\* String.prototype.trim / zod .trim()
Trim(s) == TrimRight(TrimLeft(s))

(***************************************************************************)
(* Validation of the create form (AddReturnDialog.handleSubmit).           *)
(* A draft is [storeName, price, purchaseDate, returnDate, returnedDate]:  *)
(* price is parseFloat(formData.price) in cents or NaN, the dates are the  *)
(* Date states of the form (instants) or NULL.  The result is the toast    *)
(* message, or "ok".                                                       *)
(***************************************************************************)
\* returnSchema / editReturnSchema: storeName and price; errors[0] is the
\* first issue in the order of the schema's keys.
SchemaNamePrice(name, price) ==
    IF Len(Trim(name)) < 1 THEN "Store name is required"
    ELSE IF Len(Trim(name)) > MaxNameLen
        THEN "Store name must be less than 100 characters"
    ELSE IF price = NaN THEN "Expected number, received nan"
    ELSE IF ~(price > 0) THEN "Price must be greater than 0"
    ELSE IF price > MaxPrice THEN "Price must be less than 1,000,000"
    ELSE "ok"

\* handleSubmit with the purchase date checked before the returned date.
ValidateAddSwapped(d, t) ==
    IF d.purchaseDate = NULL THEN "Purchase date is required"
    ELSE IF SchemaNamePrice(d.storeName, d.price) # "ok"
        THEN SchemaNamePrice(d.storeName, d.price)
    ELSE IF SetHours0(d.purchaseDate) > SetHours0(t)
        THEN "Purchase date cannot be in the future"
    ELSE IF d.returnedDate # NULL /\ SetHours0(d.returnedDate) > SetHours0(t)
        THEN "Date returned cannot be in the future"
    ELSE IF d.returnedDate # NULL
            /\ SetHours0(d.returnedDate) < SetHours0(d.purchaseDate)
        THEN "Date returned must be on or after purchase date"
    ELSE IF d.returnDate # NULL /\ SetHours0(d.returnDate) < SetHours0(t)
        THEN "Return by date cannot be in the past"
    ELSE IF d.returnDate # NULL
            /\ SetHours0(d.returnDate) < SetHours0(d.purchaseDate)
        THEN "Return by date must be on or after purchase date"
    ELSE "ok"

\* handleSubmit without the check of a purchase date in the future.
ValidateAddNoPurchaseCheck(d, t) ==
    IF d.purchaseDate = NULL THEN "Purchase date is required"
    ELSE IF SchemaNamePrice(d.storeName, d.price) # "ok"
        THEN SchemaNamePrice(d.storeName, d.price)
    ELSE IF d.returnedDate # NULL /\ SetHours0(d.returnedDate) > SetHours0(t)
        THEN "Date returned cannot be in the future"
    ELSE IF d.returnedDate # NULL
            /\ SetHours0(d.returnedDate) < SetHours0(d.purchaseDate)
        THEN "Date returned must be on or after purchase date"
    ELSE IF d.returnDate # NULL /\ SetHours0(d.returnDate) < SetHours0(t)
        THEN "Return by date cannot be in the past"
    ELSE IF d.returnDate # NULL
            /\ SetHours0(d.returnDate) < SetHours0(d.purchaseDate)
        THEN "Return by date must be on or after purchase date"
    ELSE "ok"

\* AddReturnDialog.handleSubmit, lines 46-111, with `today` taken at instant t.
ValidateAdd(d, t) ==
    IF d.purchaseDate = NULL THEN "Purchase date is required"
    ELSE IF SchemaNamePrice(d.storeName, d.price) # "ok"
        THEN SchemaNamePrice(d.storeName, d.price)
    ELSE IF d.returnedDate # NULL /\ SetHours0(d.returnedDate) > SetHours0(t)
        THEN "Date returned cannot be in the future"
    ELSE IF SetHours0(d.purchaseDate) > SetHours0(t)
        THEN "Purchase date cannot be in the future"
    ELSE IF d.returnedDate # NULL
            /\ SetHours0(d.returnedDate) < SetHours0(d.purchaseDate)
        THEN "Date returned must be on or after purchase date"
    ELSE IF d.returnDate # NULL /\ SetHours0(d.returnDate) < SetHours0(t)
        THEN "Return by date cannot be in the past"
    ELSE IF d.returnDate # NULL
            /\ SetHours0(d.returnDate) < SetHours0(d.purchaseDate)
        THEN "Return by date must be on or after purchase date"
    ELSE "ok"

(***************************************************************************)
(* Validation of the edit form (EditReturnDialog.handleSubmit).  The form  *)
(* holds its dates as 'yyyy-mm-dd' texts: here a day number, NULL for "".  *)
(***************************************************************************)
\* handleSubmit of the edit form without the check of a returned date
\* before the purchase date.
ValidateEditNoOrderCheck(f, t) ==
    IF SchemaNamePrice(f.storeName, f.price) # "ok"
        THEN SchemaNamePrice(f.storeName, f.price)
    ELSE IF f.purchaseDate = NULL THEN "Purchase date is required"
    ELSE IF f.returnedDate = NULL THEN "Date returned is required"
    ELSE IF ParseISODate(f.returnedDate) > SetHours0(t)
        THEN "Date returned cannot be in the future"
    ELSE IF f.returnDate # NULL
            /\ ParseISODate(f.returnDate) < ParseISODate(f.purchaseDate)
        THEN "Return by date must be on or after purchase date"
    ELSE "ok"

\* EditReturnDialog.handleSubmit, lines 470-506.
ValidateEdit(f, t) ==
    IF SchemaNamePrice(f.storeName, f.price) # "ok"
        THEN SchemaNamePrice(f.storeName, f.price)
    ELSE IF f.purchaseDate = NULL THEN "Purchase date is required"
    ELSE IF f.returnedDate = NULL THEN "Date returned is required"
    ELSE IF ParseISODate(f.returnedDate) < ParseISODate(f.purchaseDate)
        THEN "Date returned must be on or after purchase date"
    ELSE IF ParseISODate(f.returnedDate) > SetHours0(t)
        THEN "Date returned cannot be in the future"
    ELSE IF f.returnDate # NULL
            /\ ParseISODate(f.returnDate) < ParseISODate(f.purchaseDate)
        THEN "Return by date must be on or after purchase date"
    ELSE "ok"

(***************************************************************************)
(* Inputs of the validation: what a user can put into the forms.           *)
(***************************************************************************)
LongName(n) == [i \in 1..n |-> "a"]

Names ==
    { <<>>, <<" ">>, <<"a">>, <<" ", "a", " ">>,
      LongName(MaxNameLen + 1), <<" ">> \o LongName(MaxNameLen) }

Prices == { NaN, 0 - 1, 0, 1, 4550, MaxPrice, MaxPrice + 1 }

Days == 1..MaxDay
OptDays == Days \cup {NULL}

\* The day the runs start on: one day before the last day of the calendar.
Today0 == MaxDay - 1

Zones == (0 - MaxTz)..MaxTz

\* The forms' content with the dates as calendar days.
FormInputs ==
    [storeName : Names, price : Prices,
     purchaseDate : OptDays, returnDate : OptDays, returnedDate : OptDays,
     receiptImage : {NoImage}]

OptLocalMidnight(day) == IF day = NULL THEN NULL ELSE LocalMidnight(day)

\* The create form's Date states for the days picked in its calendars
\* (react-day-picker and `new Date(y, m - 1, d)` both give local midnight).
AddDraft(f) ==
    [storeName |-> f.storeName, price |-> f.price,
     purchaseDate |-> OptLocalMidnight(f.purchaseDate),
     returnDate |-> OptLocalMidnight(f.returnDate),
     returnedDate |-> OptLocalMidnight(f.returnedDate),
     receiptImage |-> f.receiptImage]

NoEvent == [op |-> "none", id |-> 0, msg |-> ""]

\* What the user is shown: the handler, the record and the toast.
Toast(op, id, msg) == [op |-> op, id |-> id, msg |-> msg]

(***************************************************************************)
(* SpecValidate: the two validations applied to every form content.        *)
(***************************************************************************)
\* The instants of the day the runs start on.
StartInstants == { LocalMidnight(Today0) + k : k \in 0..(TicksPerDay - 1) }

InitValidate ==
    /\ tz \in Zones
    /\ now \in StartInstants
    /\ draft \in FormInputs
    /\ db = <<>>
    /\ nextId = 1
    /\ returns = <<>>
    /\ ops = <<>>
    /\ ev = NoEvent

ApplyValidateAdd ==
    /\ ev.op = "none"
    /\ ev' = Toast("validateAdd", 0, ValidateAdd(AddDraft(draft), now))
    /\ UNCHANGED <<now, tz, db, nextId, returns, ops, draft>>

ApplyValidateEdit ==
    /\ ev.op = "none"
    /\ ev' = Toast("validateEdit", 0, ValidateEdit(draft, now))
    /\ UNCHANGED <<now, tz, db, nextId, returns, ops, draft>>

NextValidate == ApplyValidateAdd \/ ApplyValidateEdit

SpecValidate == InitValidate /\ [][NextValidate]_vars

(***************************************************************************)
(* The store and the in-memory list.                                       *)
(***************************************************************************)
\* The row the insert of handleAddReturn sends for the validated draft d.
InsertRow(d) ==
    [store_name |-> Trim(d.storeName),
     amount |-> d.price,
     purchase_date |-> ToISODate(d.purchaseDate),
     return_date |-> OptToISODate(d.returnDate),
     returned_date |-> OptToISODate(d.returnedDate),
     receipt_image |-> d.receiptImage,
     refund_received |-> FALSE]

StatusOf(refund) == IF refund THEN "completed" ELSE "pending"

\* handleAddReturn: the ReturnItem built from the row the insert returned.
NewItem(id, row) ==
    [id |-> id,
     storeName |-> row.store_name,
     purchaseDate |-> OptParseISODate(row.purchase_date),
     returnDate |-> OptParseISODate(row.return_date),
     returnedDate |-> OptParseISODate(row.returned_date),
     price |-> row.amount,
     receiptImage |-> row.receipt_image,
     hasReceipt |-> row.receipt_image # NoImage,
     status |-> "pending",
     refundReceived |-> FALSE]

\* fetchReturns: the ReturnItem a fetched row is transformed into.
FetchedItem(id, row, receipts) ==
    [id |-> id,
     storeName |-> row.store_name,
     purchaseDate |-> OptParseISODate(row.purchase_date),
     returnDate |-> OptParseISODate(row.return_date),
     returnedDate |-> OptParseISODate(row.returned_date),
     price |-> row.amount,
     receiptImage |-> NoImage,
     hasReceipt |-> id \in receipts,
     status |-> StatusOf(row.refund_received),
     refundReceived |-> row.refund_received]

\* The ids of a table in the order of `created_at` descending (the store
\* assigns ids in the order of creation).
RECURSIVE IdsDesc(_)
IdsDesc(S) ==
    IF S = {} THEN <<>>
    ELSE LET m == CHOOSE x \in S : \A y \in S : y <= x
         IN <<m>> \o IdsDesc(S \ {m})

RowCount(table) == Cardinality(DOMAIN table)

DeleteRow(table, id) == [i \in (DOMAIN table) \ {id} |-> table[i]]

\* update ... eq('id', id): no row, no change and no error.
UpdateRow(table, id, row) ==
    [i \in DOMAIN table |-> IF i = id THEN row ELSE table[i]]

\* returns.map(r => r.id === id ? item : r), item being the changed r (the
\* ids of a list are distinct).
MapItem(list, id, item) ==
    [i \in 1..Len(list) |-> IF list[i].id = id THEN item ELSE list[i]]

HasItem(list, id) == \E i \in 1..Len(list) : list[i].id = id

\* returns.find(r => r.id === id)
FindItem(list, id) ==
    list[CHOOSE i \in 1..Len(list) :
            list[i].id = id /\ \A j \in 1..(i - 1) : list[j].id # id]

ItemIds(list) == { list[i].id : i \in 1..Len(list) }

RemoveAt(s, i) == SubSeq(s, 1, i - 1) \o SubSeq(s, i + 1, Len(s))

SetOp(i, op) == [ops EXCEPT ![i] = op]

\* `if (loading || fetchLoading)` renders the loading view instead of the
\* page: no handler of the page can be invoked while a fetch is in flight.
FetchLoading == \E i \in 1..Len(ops) : ops[i].kind = "fetch"

NewOp(kind, phase, id, arg) ==
    [kind |-> kind, phase |-> phase, id |-> id, snap |-> returns, arg |-> arg,
     res |-> "none", data |-> NULL]

\* A handler can be invoked: the page is rendered and the model has room.
CanStart(maxOps) == Len(ops) < maxOps /\ ~FetchLoading

AddsInFlight == Cardinality({ i \in 1..Len(ops) : ops[i].kind = "add" })

\* AddReturnDialog.handleSubmit, lines 151-159: the form is emptied and the
\* dialog closed; isProcessingOCR is not touched.
ResetForm(d) ==
    [d EXCEPT !.storeName = <<>>, !.price = NaN, !.purchaseDate = NULL,
              !.returnDate = NULL, !.returnedDate = NULL,
              !.receiptImage = NoImage, !.open = FALSE]

\* onOpenChange(false) of the edit dialog: Index sets editingReturn to null;
\* formData and the busy flag of the dialog stay as they are.
CloseForm(d) == [d EXCEPT !.open = FALSE, !.item = 0]


(***************************************************************************)
(* Create: AddReturnDialog.handleSubmit, then Index.handleAddReturn.       *)
(***************************************************************************)
\* handleSubmit, lines 43-111: the validation; a valid draft goes on to the
\* count query.  The handleAddReturn it will call is the one of this render.
HandleSubmit(f, maxOps, maxRows) ==
    /\ CanStart(maxOps)
    /\ nextId + AddsInFlight <= maxRows
    /\ LET d == AddDraft(f)
           msg == ValidateAdd(d, now)
       IN IF msg # "ok"
            THEN /\ ev' = Toast("submit", 0, msg)
                 /\ ops' = ops
            ELSE /\ ops' = Append(ops, NewOp("add", "count", 0, d))
                 /\ ev' = NoEvent
    /\ UNCHANGED <<now, tz, db, nextId, returns, draft>>

\* The pre-check with > for >=.
CountOverLimitStrict(count) == count > ReturnLimit

\* handleSubmit, line 129: count !== null && count >= 25
CountOverLimit(count) == count >= ReturnLimit

\* check_return_limit, line 18: IF return_count >= 25 THEN RAISE EXCEPTION
TriggerRaises(count) == count >= ReturnLimit

\* handleSubmit, lines 113-161: the count query and what follows it: onAdd
\* is called and not awaited, the form is emptied and closed, the success
\* message is shown.  handleAddReturn (Index.tsx lines 185-190) returns at
\* once, after its own message, when the image is longer than 2 MB.
AddCount(i) ==
    /\ ops[i].kind = "add" /\ ops[i].phase = "count"
    /\ \/ /\ ops' = RemoveAt(ops, i)
          /\ ev' = Toast("submit", 0,
                    "Failed to verify return limit. Please try again.")
          /\ draft' = draft
       \/ IF CountOverLimit(RowCount(db))
            THEN /\ ops' = RemoveAt(ops, i)
                 /\ ev' = Toast("submit", 0,
                        "Maximum return limit reached (25 per user). Please delete old returns to add new ones.")
                 /\ draft' = draft
            ELSE /\ IF ImageLen(ops[i].arg.receiptImage) > MaxImageLen
                        THEN /\ ops' = RemoveAt(ops, i)
                             /\ ev' = [op |-> "submit", id |-> 0,
                                       msg |-> "Return added successfully!",
                                       before |-> "Image is too large. Please use a smaller image (max 2MB)"]
                        ELSE /\ ops' = SetOp(i, [ops[i] EXCEPT
                                                    !.phase = "insert"])
                             /\ ev' = Toast("submit", 0,
                                            "Return added successfully!")
                 /\ draft' = ResetForm(draft)
    /\ UNCHANGED <<now, tz, db, nextId, returns>>

\* check_return_limit, the BEFORE INSERT trigger: counts the user's rows as
\* they are committed when the insert statement runs.
AddTrigger(i) ==
    /\ ops[i].kind = "add" /\ ops[i].phase = "insert"
    /\ \/ ops' = SetOp(i, [ops[i] EXCEPT !.phase = "resp", !.res = "error"])
       \/ IF TriggerRaises(RowCount(db))
            THEN ops' = SetOp(i, [ops[i] EXCEPT !.phase = "resp",
                                                !.res = "limit"])
            ELSE ops' = SetOp(i, [ops[i] EXCEPT !.phase = "checked"])
    /\ ev' = NoEvent
    /\ UNCHANGED <<now, tz, db, nextId, returns, draft>>

\* The insert of handleAddReturn commits its row; `.select().single()`
\* returns the new row.
AddInsert(i) ==
    /\ ops[i].kind = "add" /\ ops[i].phase = "checked"
    /\ db' = db @@ (nextId :> InsertRow(ops[i].arg))
    /\ nextId' = nextId + 1
    /\ ops' = SetOp(i, [ops[i] EXCEPT !.phase = "resp", !.res = "ok",
                                      !.id = nextId,
                                      !.data = InsertRow(ops[i].arg)])
    /\ ev' = NoEvent
    /\ UNCHANGED <<now, tz, returns, draft>>

\* handleAddReturn, lines 208-229.
AddResume(i) ==
    /\ ops[i].kind = "add" /\ ops[i].phase = "resp"
    /\ IF ops[i].res # "ok"
        THEN /\ returns' = returns
             /\ ev' = Toast("add", 0,
                    IF ops[i].res = "limit"
                        THEN "Failed to add return: Maximum return limit reached (25 per user). Please delete old returns to add new ones."
                        ELSE "Failed to add return: request failed")
        ELSE /\ returns' = <<NewItem(ops[i].id, ops[i].data)>> \o ops[i].snap
             /\ ev' = Toast("add", ops[i].id, "Return added successfully!")
    /\ ops' = RemoveAt(ops, i)
    /\ UNCHANGED <<now, tz, db, nextId, draft>>


(***************************************************************************)
(* The handlers of Index.tsx on one record.  Each one sends its request,   *)
(* the store executes it (or the request fails), and the handler resumes   *)
(* with the list `returns` of the render it was invoked in.                *)
(***************************************************************************)
Failed(i) == SetOp(i, [ops[i] EXCEPT !.phase = "resp", !.res = "error"])
Done(i) == SetOp(i, [ops[i] EXCEPT !.phase = "resp", !.res = "ok"])

TogglesInFlight(id) ==
    { i \in 1..Len(ops) : ops[i].kind = "toggle" /\ ops[i].id = id }

\* handleToggleRefund, line 240: newRefundStatus
ToggleTarget(item) == ~item.refundReceived

\* handleToggleRefund, lines 236-244.
ToggleStart(id, maxOps) ==
    /\ CanStart(maxOps)
    /\ HasItem(returns, id)
    /\ ops' = Append(ops, NewOp("toggle", "update", id,
                                ToggleTarget(FindItem(returns, id))))
    /\ ev' = NoEvent
    /\ UNCHANGED <<now, tz, db, nextId, returns, draft>>

\* .update({ refund_received: newRefundStatus }).eq('id', id)
ToggleExec(i) ==
    /\ ops[i].kind = "toggle" /\ ops[i].phase = "update"
    /\ \/ ops' = Failed(i) /\ db' = db
       \/ /\ ops' = Done(i)
          /\ db' = UpdateRow(db, ops[i].id,
                    [db[ops[i].id] EXCEPT !.refund_received = ops[i].arg])
    /\ ev' = NoEvent
    /\ UNCHANGED <<now, tz, nextId, returns, draft>>

\* handleToggleRefund, lines 246-255.
ToggleResume(i) ==
    /\ ops[i].kind = "toggle" /\ ops[i].phase = "resp"
    /\ IF ops[i].res = "error"
        THEN /\ returns' = returns
             /\ ev' = Toast("toggle", ops[i].id,
                            "Failed to update refund status")
        ELSE /\ returns' = MapItem(ops[i].snap, ops[i].id,
                    [FindItem(ops[i].snap, ops[i].id) EXCEPT
                        !.refundReceived = ops[i].arg,
                        !.status = StatusOf(ops[i].arg)])
             /\ ev' = Toast("toggle", ops[i].id, "Refund status updated")
    /\ ops' = RemoveAt(ops, i)
    /\ UNCHANGED <<now, tz, db, nextId, draft>>

\* handleMarkComplete, lines 258-262.
CompleteStart(id, maxOps) ==
    /\ CanStart(maxOps)
    /\ HasItem(returns, id)
    /\ ops' = Append(ops, NewOp("complete", "update", id, NULL))
    /\ ev' = NoEvent
    /\ UNCHANGED <<now, tz, db, nextId, returns, draft>>

\* An update that inverts the flag instead of setting it.
CompletedRowFlip(row) == [row EXCEPT !.refund_received = ~row.refund_received]

\* .update({ refund_received: true })
CompletedRow(row) == [row EXCEPT !.refund_received = TRUE]

CompleteExec(i) ==
    /\ ops[i].kind = "complete" /\ ops[i].phase = "update"
    /\ \/ ops' = Failed(i) /\ db' = db
       \/ /\ ops' = Done(i)
          /\ db' = UpdateRow(db, ops[i].id, CompletedRow(db[ops[i].id]))
    /\ ev' = NoEvent
    /\ UNCHANGED <<now, tz, nextId, returns, draft>>

\* A record update that leaves the status as it was.
CompletedItemStale(r) == [r EXCEPT !.refundReceived = TRUE]

\* handleMarkComplete, line 269: { ...r, refundReceived: true, status: "completed" }
CompletedItem(r) == [r EXCEPT !.refundReceived = TRUE, !.status = "completed"]

\* handleMarkComplete, lines 264-274.
CompleteResume(i) ==
    /\ ops[i].kind = "complete" /\ ops[i].phase = "resp"
    /\ IF ops[i].res = "error"
        THEN /\ returns' = returns
             /\ ev' = Toast("complete", ops[i].id,
                            "Failed to mark as complete")
        ELSE /\ returns' = MapItem(ops[i].snap, ops[i].id,
                    CompletedItem(FindItem(ops[i].snap, ops[i].id)))
             /\ ev' = Toast("complete", ops[i].id,
                            "Return marked as complete!")
    /\ ops' = RemoveAt(ops, i)
    /\ UNCHANGED <<now, tz, db, nextId, draft>>

\* ReturnDetailDialog.handleConfirmRefund, lines 71-76, behind the button of
\* line 207: onToggleRefund(item.id); onMarkComplete(item.id).
ConfirmRefund(id, maxOps) ==
    /\ Len(ops) + 2 <= maxOps /\ ~FetchLoading
    /\ HasItem(returns, id)
    /\ LET item == FindItem(returns, id)
       IN /\ item.returnedDate # NULL /\ item.returnDate # NULL
          /\ ~item.refundReceived
    /\ ops' = ops \o
            << NewOp("toggle", "update", id,
                     ToggleTarget(FindItem(returns, id))),
               NewOp("complete", "update", id, NULL) >>
    /\ ev' = NoEvent
    /\ UNCHANGED <<now, tz, db, nextId, returns, draft>>

\* handleDelete, lines 277-281.
DeleteStart(id, maxOps) ==
    /\ CanStart(maxOps)
    /\ HasItem(returns, id)
    /\ ops' = Append(ops, NewOp("delete", "update", id, NULL))
    /\ ev' = NoEvent
    /\ UNCHANGED <<now, tz, db, nextId, returns, draft>>

DeleteExec(i) ==
    /\ ops[i].kind = "delete" /\ ops[i].phase = "update"
    /\ \/ ops' = Failed(i) /\ db' = db
       \/ ops' = Done(i) /\ db' = DeleteRow(db, ops[i].id)
    /\ ev' = NoEvent
    /\ UNCHANGED <<now, tz, nextId, returns, draft>>

\* A handleDelete that filters the list whatever the store answered.
DeleteResumeAlways(i) ==
    /\ ops[i].kind = "delete" /\ ops[i].phase = "resp"
    /\ returns' = SelectSeq(ops[i].snap, LAMBDA r : r.id # ops[i].id)
    /\ ev' = Toast("delete", ops[i].id,
                   IF ops[i].res = "error" THEN "Failed to delete return"
                                           ELSE "Return deleted")
    /\ ops' = RemoveAt(ops, i)
    /\ UNCHANGED <<now, tz, db, nextId, draft>>

\* handleDelete, lines 283-289.
DeleteResume(i) ==
    /\ ops[i].kind = "delete" /\ ops[i].phase = "resp"
    /\ IF ops[i].res = "error"
        THEN /\ returns' = returns
             /\ ev' = Toast("delete", ops[i].id, "Failed to delete return")
        ELSE /\ returns' = SelectSeq(ops[i].snap, LAMBDA r : r.id # ops[i].id)
             /\ ev' = Toast("delete", ops[i].id, "Return deleted")
    /\ ops' = RemoveAt(ops, i)
    /\ UNCHANGED <<now, tz, db, nextId, draft>>


\* ReturnDetailDialog: the "Mark as Returned" button (line 199) and the days
\* its calendar leaves enabled (lines 259-274), for the item shown.
CanPickReturned(item, date) ==
    /\ item.status = "pending" /\ ~item.refundReceived
    /\ item.returnedDate = NULL
    /\ ~(date > SetHours0(now))
    /\ ~(item.purchaseDate # NULL /\ date < SetHours0(item.purchaseDate))

\* handleConfirmRefund, lines 63-69, and handleMarkReturned, lines 292-296.
MarkReturnedStart(id, day, maxOps) ==
    /\ CanStart(maxOps)
    /\ HasItem(returns, id)
    /\ CanPickReturned(FindItem(returns, id), LocalMidnight(day))
    /\ ops' = Append(ops, NewOp("returned", "update", id, LocalMidnight(day)))
    /\ ev' = NoEvent
    /\ UNCHANGED <<now, tz, db, nextId, returns, draft>>

\* .update({ returned_date: date.toISOString().split('T')[0] })
MarkReturnedExec(i) ==
    /\ ops[i].kind = "returned" /\ ops[i].phase = "update"
    /\ \/ ops' = Failed(i) /\ db' = db
       \/ /\ ops' = Done(i)
          /\ db' = UpdateRow(db, ops[i].id,
                [db[ops[i].id] EXCEPT !.returned_date = ToISODate(ops[i].arg)])
    /\ ev' = NoEvent
    /\ UNCHANGED <<now, tz, nextId, returns, draft>>

\* handleMarkReturned, lines 298-314.
MarkReturnedResume(i) ==
    /\ ops[i].kind = "returned" /\ ops[i].phase = "resp"
    /\ IF ops[i].res = "error"
        THEN /\ returns' = returns
             /\ ev' = Toast("returned", ops[i].id, "Failed to mark as returned")
        ELSE /\ returns' = MapItem(ops[i].snap, ops[i].id,
                    [FindItem(ops[i].snap, ops[i].id) EXCEPT
                        !.returnedDate = ops[i].arg])
             /\ ev' = Toast("returned", ops[i].id, "Marked as returned!")
    /\ ops' = RemoveAt(ops, i)
    /\ UNCHANGED <<now, tz, db, nextId, draft>>

(***************************************************************************)
(* Edit: EditReturnDialog.handleSubmit, then Index.handleEdit.             *)
(***************************************************************************)
\* EditReturnDialog.handleSubmit, lines 510-517: the row the dialog writes.
EditedRow(row, f) ==
    [row EXCEPT !.store_name = Trim(f.storeName),
                !.purchase_date = f.purchaseDate,
                !.return_date = f.returnDate,
                !.returned_date = f.returnedDate,
                !.amount = f.price]

\* EditReturnDialog.handleSubmit, lines 537-544: the data given to onSave.
EditData(f) ==
    [storeName |-> Trim(f.storeName),
     purchaseDate |-> ParseISODate(f.purchaseDate),
     returnDate |-> OptParseISODate(f.returnDate),
     returnedDate |-> ParseISODate(f.returnedDate),
     price |-> f.price,
     receiptImage |-> f.receiptImage]

\* handleEdit, lines 320-327: the row handleEdit writes (an undefined
\* receipt_image is not sent).
SavedRow(row, data) ==
    [row EXCEPT !.store_name = data.storeName,
                !.amount = data.price,
                !.purchase_date = OptToISODate(data.purchaseDate),
                !.return_date = OptToISODate(data.returnDate),
                !.returned_date = OptToISODate(data.returnedDate),
                !.receipt_image = IF data.receiptImage = NoImage
                                    THEN @ ELSE data.receiptImage]

\* handleEdit, line 335: { ...r, ...data }
SavedItem(r, data) ==
    [r EXCEPT !.storeName = data.storeName,
              !.purchaseDate = data.purchaseDate,
              !.returnDate = data.returnDate,
              !.returnedDate = data.returnedDate,
              !.price = data.price,
              !.receiptImage = data.receiptImage]

\* EditReturnDialog.handleSubmit, lines 464-506, on the item being edited.
EditSubmit(id, f, maxOps) ==
    /\ CanStart(maxOps)
    /\ HasItem(returns, id)
    /\ LET msg == ValidateEdit(f, now)
       IN IF msg # "ok"
            THEN /\ ev' = Toast("edit", id, msg)
                 /\ ops' = ops
            ELSE /\ ops' = Append(ops, NewOp("edit", "update", id, f))
                 /\ ev' = NoEvent
    /\ UNCHANGED <<now, tz, db, nextId, returns, draft>>

\* EditExec that gives up when the image cannot be saved: onSave is not
\* called.
EditExecStopsOnImageFailure(i) ==
    /\ ops[i].kind = "edit" /\ ops[i].phase = "update"
    /\ \/ /\ ops' = RemoveAt(ops, i)
          /\ db' = db
          /\ ev' = Toast("edit", ops[i].id, "Failed to update return")
          /\ draft' = draft
       \/ /\ ops' = SetOp(i, [ops[i] EXCEPT !.phase = "save"])
          /\ db' = UpdateRow(db, ops[i].id,
                        EditedRow(db[ops[i].id], ops[i].arg))
          /\ ev' = NoEvent
          /\ draft' = CloseForm(draft)
       \/ /\ ops[i].arg.receiptImage # NoImage
          /\ ops' = RemoveAt(ops, i)
          /\ db' = UpdateRow(db, ops[i].id,
                        EditedRow(db[ops[i].id], ops[i].arg))
          /\ ev' = Toast("edit", ops[i].id,
                        "Return updated but failed to save receipt image")
          /\ draft' = draft
    /\ UNCHANGED <<now, tz, nextId, returns>>

\* EditReturnDialog.handleSubmit, lines 508-546: the dialog's own update;
\* when it succeeded, the image of the form, if any, is saved to the local
\* image store (a failure of which is only reported), onSave is called and
\* the dialog closes.
EditExec(i) ==
    /\ ops[i].kind = "edit" /\ ops[i].phase = "update"
    /\ \/ /\ ops' = RemoveAt(ops, i)
          /\ db' = db
          /\ ev' = Toast("edit", ops[i].id, "Failed to update return")
          /\ draft' = draft
       \/ /\ ops' = SetOp(i, [ops[i] EXCEPT !.phase = "save"])
          /\ db' = UpdateRow(db, ops[i].id,
                        EditedRow(db[ops[i].id], ops[i].arg))
          /\ \/ ev' = NoEvent
             \/ /\ ops[i].arg.receiptImage # NoImage
                /\ ev' = Toast("edit", ops[i].id,
                        "Return updated but failed to save receipt image")
          /\ draft' = CloseForm(draft)
    /\ UNCHANGED <<now, tz, nextId, returns>>

\* handleEdit, lines 317-328: the update of handleEdit, called by onSave.
SaveExec(i) ==
    /\ ops[i].kind = "edit" /\ ops[i].phase = "save"
    /\ \/ ops' = Failed(i) /\ db' = db
       \/ /\ ops' = Done(i)
          /\ db' = UpdateRow(db, ops[i].id,
                        SavedRow(db[ops[i].id], EditData(ops[i].arg)))
    /\ ev' = NoEvent
    /\ UNCHANGED <<now, tz, nextId, returns, draft>>

\* handleEdit, lines 330-340.
SaveResume(i) ==
    /\ ops[i].kind = "edit" /\ ops[i].phase = "resp"
    /\ IF ops[i].res = "error"
        THEN /\ returns' = returns
             /\ ev' = Toast("edit", ops[i].id, "Failed to update return")
        ELSE /\ returns' = MapItem(ops[i].snap, ops[i].id,
                    SavedItem(FindItem(ops[i].snap, ops[i].id),
                              EditData(ops[i].arg)))
             /\ ev' = Toast("edit", ops[i].id, "Return updated successfully!")
    /\ ops' = RemoveAt(ops, i)
    /\ UNCHANGED <<now, tz, db, nextId, draft>>

(***************************************************************************)
(* fetchReturns (on mount and from handleRefresh).                         *)
(***************************************************************************)
\* fetchReturns, lines 78-85; handleRefresh is disabled while refreshing.
FetchStart(maxOps) ==
    /\ Len(ops) < maxOps /\ ~FetchLoading
    /\ ops' = Append(ops, NewOp("fetch", "select", 0, NULL))
    /\ ev' = NoEvent
    /\ UNCHANGED <<now, tz, db, nextId, returns, draft>>

\* The rows of a select that names every column but receipt_image.
ScalarColumns(table) ==
    [id \in DOMAIN table |-> [table[id] EXCEPT !.receipt_image = NoImage]]

\* fetchReturns, lines 90-101: the select of the scalar columns.
FetchSelect(i) ==
    /\ ops[i].kind = "fetch" /\ ops[i].phase = "select"
    /\ \/ /\ ops' = RemoveAt(ops, i)
          /\ ev' = Toast("fetch", 0, "Failed to load returns")
       \/ /\ ops' = SetOp(i, [ops[i] EXCEPT !.phase = "receipts",
                                            !.data = ScalarColumns(db)])
          /\ ev' = NoEvent
    /\ UNCHANGED <<now, tz, db, nextId, returns, draft>>

\* fetchReturns, lines 107-119: the ids of the rows that have a receipt; on
\* an error the fetch goes on without them.
FetchReceipts(i) ==
    /\ ops[i].kind = "fetch" /\ ops[i].phase = "receipts"
    /\ \/ ops' = SetOp(i, [ops[i] EXCEPT !.phase = "resp", !.arg = {}])
       \/ ops' = SetOp(i, [ops[i] EXCEPT !.phase = "resp",
                    !.arg = { id \in DOMAIN db : db[id].receipt_image # NoImage }])
    /\ ev' = NoEvent
    /\ UNCHANGED <<now, tz, db, nextId, returns, draft>>

\* fetchReturns, lines 123-136.
FetchResume(i) ==
    /\ ops[i].kind = "fetch" /\ ops[i].phase = "resp"
    /\ LET rows == ops[i].data
           order == IdsDesc(DOMAIN rows)
       IN returns' = [k \in 1..Len(order) |->
                        FetchedItem(order[k], rows[order[k]], ops[i].arg)]
    /\ ops' = RemoveAt(ops, i)
    /\ ev' = NoEvent
    /\ UNCHANGED <<now, tz, db, nextId, draft>>

\* Time passes.
Tick ==
    /\ LocalDay(now + 1) <= MaxDay
    /\ now' = now + 1
    /\ ev' = NoEvent
    /\ UNCHANGED <<tz, db, nextId, returns, ops, draft>>


(***************************************************************************)
(* Specifications.                                                         *)
(***************************************************************************)
\* A row as a create of an earlier session left it.
SeedRow(refund) ==
    [store_name |-> <<"a">>, amount |-> 1, purchase_date |-> 1,
     return_date |-> 1, returned_date |-> 1, receipt_image |-> NoImage,
     refund_received |-> refund]

\* The list fetchReturns builds from a table (all requests succeeding).
Loaded(table) ==
    LET order == IdsDesc(DOMAIN table)
    IN [k \in 1..Len(order) |-> FetchedItem(order[k], table[order[k]], {})]

\* The create form as the page mounts it: empty, closed, nothing in progress.
\* `dialog` tells the form of the create dialog from the form of the edit
\* dialog, `item` is the record the edit dialog is open on (0: none).
NoDraft ==
    [storeName |-> <<>>, price |-> NaN, purchaseDate |-> NULL,
     returnDate |-> NULL, returnedDate |-> NULL, receiptImage |-> NoImage,
     busy |-> FALSE, open |-> FALSE, dialog |-> "add", item |-> 0]

\* A form content with the given calendar days and a valid name and price.
DatedForm(name, p, rb, rd) ==
    [storeName |-> name, price |-> 1, purchaseDate |-> p, returnDate |-> rb,
     returnedDate |-> rd, receiptImage |-> NoImage]

(***************************************************************************)
(* Spec: the lifecycle of the records of one user, from an empty table.    *)
(***************************************************************************)
LifeForms ==
    { DatedForm(<<"a">>, Today0, Today0, NULL),
      DatedForm(<<"a">>, Today0 + 1, NULL, NULL) }

LifeEdits == { DatedForm(<<"b">>, 1, NULL, rd) : rd \in {1, MaxDay} }

Init ==
    /\ tz \in Zones
    /\ now = LocalMidnight(Today0)
    /\ db = <<>>
    /\ nextId = 1
    /\ returns = <<>>
    /\ ops = <<>>
    /\ draft = NoDraft
    /\ ev = NoEvent

Next ==
    \/ \E f \in LifeForms : HandleSubmit(f, MaxOps, MaxRows)
    \/ \E i \in 1..Len(ops) : AddCount(i)
    \/ \E i \in 1..Len(ops) : AddTrigger(i)
    \/ \E i \in 1..Len(ops) : AddInsert(i)
    \/ \E i \in 1..Len(ops) : AddResume(i)
    \/ \E id \in ItemIds(returns) : ToggleStart(id, MaxOps)
    \/ \E i \in 1..Len(ops) : ToggleExec(i)
    \/ \E i \in 1..Len(ops) : ToggleResume(i)
    \/ \E id \in ItemIds(returns) : CompleteStart(id, MaxOps)
    \/ \E i \in 1..Len(ops) : CompleteExec(i)
    \/ \E i \in 1..Len(ops) : CompleteResume(i)
    \/ \E id \in ItemIds(returns) : ConfirmRefund(id, MaxOps)
    \/ \E id \in ItemIds(returns) : DeleteStart(id, MaxOps)
    \/ \E i \in 1..Len(ops) : DeleteExec(i)
    \/ \E i \in 1..Len(ops) : DeleteResume(i)
    \/ \E id \in ItemIds(returns), day \in Days : MarkReturnedStart(id, day, MaxOps)
    \/ \E i \in 1..Len(ops) : MarkReturnedExec(i)
    \/ \E i \in 1..Len(ops) : MarkReturnedResume(i)
    \/ \E id \in ItemIds(returns), f \in LifeEdits : EditSubmit(id, f, MaxOps)
    \/ \E i \in 1..Len(ops) : EditExec(i)
    \/ \E i \in 1..Len(ops) : SaveExec(i)
    \/ \E i \in 1..Len(ops) : SaveResume(i)
    \/ FetchStart(MaxOps)
    \/ \E i \in 1..Len(ops) : FetchSelect(i)
    \/ \E i \in 1..Len(ops) : FetchReceipts(i)
    \/ \E i \in 1..Len(ops) : FetchResume(i)

Spec == Init /\ [][Next]_vars

(***************************************************************************)
(* SpecLimit: a user whose table holds one row less than the limit, or the *)
(* limit; creates (up to MaxRace at once) and deletes.                     *)
(***************************************************************************)
LimitForms == { DatedForm(<<"a">>, Today0, NULL, NULL) }

InitLimit ==
    /\ tz \in Zones
    /\ now \in StartInstants
    /\ \E n \in {ReturnLimit - 1, ReturnLimit}, refund \in BOOLEAN :
        /\ db = [id \in 1..n |-> SeedRow(refund)]
        /\ nextId = n + 1
        /\ returns = Loaded([id \in 1..n |-> SeedRow(refund)])
    /\ ops = <<>>
    /\ draft = NoDraft
    /\ ev = NoEvent

NextLimit ==
    \/ \E f \in LimitForms : HandleSubmit(f, MaxRace, ReturnLimit + MaxRace)
    \/ \E i \in 1..Len(ops) : AddCount(i)
    \/ \E i \in 1..Len(ops) : AddTrigger(i)
    \/ \E i \in 1..Len(ops) : AddInsert(i)
    \/ \E i \in 1..Len(ops) : AddResume(i)
    \/ \E id \in ItemIds(returns) \cap {1} : DeleteStart(id, MaxRace)
    \/ \E i \in 1..Len(ops) : DeleteExec(i)
    \/ \E i \in 1..Len(ops) : DeleteResume(i)

SpecLimit == InitLimit /\ [][NextLimit]_vars

(***************************************************************************)
(* SpecWrite: one record, written by one handler at a time: created from   *)
(* any dates, marked as returned, edited, fetched again, as days pass.     *)
(***************************************************************************)
WriteForms ==
    { DatedForm(<<" ", "a", " ">>, p, rb, rd) :
        p \in Days, rb \in OptDays, rd \in OptDays }

InitWrite == Init

NextWrite ==
    \/ \E f \in WriteForms : HandleSubmit(f, 1, 1)
    \/ \E i \in 1..Len(ops) : AddCount(i)
    \/ \E i \in 1..Len(ops) : AddTrigger(i)
    \/ \E i \in 1..Len(ops) : AddInsert(i)
    \/ \E i \in 1..Len(ops) : AddResume(i)
    \/ \E id \in ItemIds(returns), day \in Days : MarkReturnedStart(id, day, 1)
    \/ \E i \in 1..Len(ops) : MarkReturnedExec(i)
    \/ \E i \in 1..Len(ops) : MarkReturnedResume(i)
    \/ \E id \in ItemIds(returns), f \in WriteForms : EditSubmit(id, f, 1)
    \/ \E i \in 1..Len(ops) : EditExec(i)
    \/ \E i \in 1..Len(ops) : SaveExec(i)
    \/ \E i \in 1..Len(ops) : SaveResume(i)
    \/ FetchStart(1)
    \/ \E i \in 1..Len(ops) : FetchSelect(i)
    \/ \E i \in 1..Len(ops) : FetchReceipts(i)
    \/ \E i \in 1..Len(ops) : FetchResume(i)
    \/ Tick

SpecWrite == InitWrite /\ [][NextWrite]_vars

(***************************************************************************)
(* SpecToggle: one record at rest, and toggles of its refund, up to        *)
(* MaxOps of them in flight at once.                                       *)
(***************************************************************************)
InitToggle ==
    /\ tz \in Zones
    /\ now \in StartInstants
    /\ \E refund \in BOOLEAN :
        /\ db = (1 :> SeedRow(refund))
        /\ returns = Loaded(1 :> SeedRow(refund))
    /\ nextId = 2
    /\ ops = <<>>
    /\ draft = NoDraft
    /\ ev = NoEvent

NextToggle ==
    \/ \E id \in ItemIds(returns) : ToggleStart(id, MaxOps)
    \/ \E i \in 1..Len(ops) : ToggleExec(i)
    \/ \E i \in 1..Len(ops) : ToggleResume(i)

SpecToggle == InitToggle /\ [][NextToggle]_vars
(***************************************************************************)
(* SpecEdit: one record at rest, and edits of it with any form content,    *)
(* valid or not, one at a time.                                            *)
(***************************************************************************)
EditForms ==
    { f \in FormInputs :
        /\ f.storeName \in { <<" ">>, <<" ", "a", " ">> }
        /\ f.price \in { 0, 1 } }

InitEdit == InitToggle

NextEdit ==
    \/ \E id \in ItemIds(returns), f \in EditForms : EditSubmit(id, f, 1)
    \/ \E i \in 1..Len(ops) : EditExec(i)
    \/ \E i \in 1..Len(ops) : SaveExec(i)
    \/ \E i \in 1..Len(ops) : SaveResume(i)

SpecEdit == InitEdit /\ [][NextEdit]_vars
(***************************************************************************)
(* The reminders: the signal of ReturnCard and ReturnDetailDialog, and     *)
(* checkAndScheduleNotifications (utils/notifications.ts).                 *)
(***************************************************************************)
\* ReturnCard, lines 25-27: Math.floor of the elapsed time in days.
DaysSinceReturned(item, t) ==
    IF item.returnedDate = NULL THEN 0
    ELSE (t - item.returnedDate) \div TicksPerDay

\* ReturnCard, line 29.
NeedsRefundReminder(item, t) ==
    /\ ~item.refundReceived
    /\ item.returnedDate # NULL
    /\ DaysSinceReturned(item, t) >= ReminderDays

\* checkAndScheduleNotifications, lines 37-60, on a row of the query.
DeadlineNotice(row, t) ==
    IF row.return_date = NULL THEN "none"
    ELSE IF SetHours0(ParseISODate(row.return_date)) < SetHours0(t)
        THEN "overdue"
    ELSE IF SetHours0(ParseISODate(row.return_date))
                <= SetHours0(t) + DueSoonDays * TicksPerDay
        THEN "due soon"
    ELSE "none"

\* checkAndScheduleNotifications, lines 63-76, on a row of the query.
RefundNotice(row, t) ==
    /\ row.returned_date # NULL
    /\ SetHours0(ParseISODate(row.returned_date))
            <= SetHours0(t) - ReminderDays * TicksPerDay
    /\ ~row.refund_received

\* The card of every record of the list is rendered.
RenderCards ==
    /\ ev.op = "none"
    /\ ev' = [op |-> "cards", id |-> 0, msg |-> "",
              reminder |-> [k \in 1..Len(returns) |->
                                NeedsRefundReminder(returns[k], now)]]
    /\ UNCHANGED <<now, tz, db, nextId, returns, ops, draft>>

\* checkAndScheduleNotifications: the query for the rows whose refund has
\* not been received, and the notifications shown for each of them.
CheckNotifications ==
    /\ ev.op = "none"
    /\ ev' = [op |-> "notify", id |-> 0, msg |-> "",
              deadline |-> [id \in { r \in DOMAIN db : ~db[r].refund_received }
                                |-> DeadlineNotice(db[id], now)],
              refund |-> [id \in { r \in DOMAIN db : ~db[r].refund_received }
                                |-> RefundNotice(db[id], now)]]
    /\ UNCHANGED <<now, tz, db, nextId, returns, ops, draft>>

(***************************************************************************)
(* SpecRemind: one record at rest with any dates, looked at on any day.    *)
(***************************************************************************)
RemindDays == 1..(MaxDay + ReminderDays + 2)

RemindRow(rb, rd, refund) ==
    [SeedRow(refund) EXCEPT !.return_date = rb, !.returned_date = rd]

InitRemind ==
    /\ tz \in Zones
    /\ \E day \in RemindDays, k \in 0..(TicksPerDay - 1) :
            now = LocalMidnight(day) + k
    /\ \E rb \in RemindDays \cup {NULL}, rd \in RemindDays \cup {NULL},
          refund \in BOOLEAN :
            /\ db = (1 :> RemindRow(rb, rd, refund))
            /\ returns = Loaded(1 :> RemindRow(rb, rd, refund))
    /\ nextId = 2
    /\ ops = <<>>
    /\ draft = NoDraft
    /\ ev = NoEvent

NextRemind == RenderCards \/ CheckNotifications

SpecRemind == InitRemind /\ [][NextRemind]_vars


(***************************************************************************)
(* Receipt images: handleImageUpload of the create dialog                  *)
(* (AddReturnDialog.tsx) and compressImage / handleImageUpload of the edit *)
(* dialog (EditReturnDialog.tsx).  `draft` is the form of the dialog the   *)
(* behaviour follows; an upload in flight is an entry of `ops` whose `arg` *)
(* is the chosen file.                                                     *)
(***************************************************************************)
\* The size the canvas of the create dialog is given, lines 181-198.
\* `canvas.width = width` keeps the whole part of the number.
ResizeAdd(w, h) ==
    IF w > MaxDimension \/ h > MaxDimension
        THEN IF w > h
                THEN <<MaxDimension, (h * MaxDimension) \div w>>
                ELSE <<(w * MaxDimension) \div h, MaxDimension>>
        ELSE <<w, h>>

\* The size the canvas of the edit dialog is given, compressImage lines
\* 569-580.
ResizeEdit(w, h) ==
    IF w > MaxWidth
        THEN <<MaxWidth, (h * MaxWidth) \div w>>
        ELSE <<w, h>>

\* canvas.toDataURL of a canvas of the given size: the picture as a text of
\* len MB.
DataURL(size, len) == <<size[1], size[2], len>>

\* The files the user picks: a size in MB, the pixels of the picture, and
\* the length in MB of the JPEG text the canvas will make of it.
ImageFiles ==
    { [size |-> s, w |-> d[1], h |-> d[2], len |-> l] :
        s \in { 1, EditMaxSize + 1 },
        d \in { <<50, 3000>> },
        l \in { 1, MaxImageLen + 1 } }

(***************************************************************************)
(* The dates of a receipt.  extract-receipt-info answers them as texts; the *)
(* upload handler splits a text at "/" and gives parseInt of the parts to   *)
(* new Date(year, month - 1, day).                                          *)
(***************************************************************************)
\* The calendar date of day 1 of the model: <<year, month, day>>.
FirstDay == <<2022, 1, 1>>

LeapYear(y) == (y % 4 = 0 /\ y % 100 # 0) \/ y % 400 = 0

DaysInMonth(y, m) ==
    IF m = 2 THEN (IF LeapYear(y) THEN 29 ELSE 28)
    ELSE IF m \in {4, 6, 9, 11} THEN 30 ELSE 31

\* The days of year y before its month m (1..12).
RECURSIVE DaysBeforeMonth(_, _)
DaysBeforeMonth(y, m) ==
    IF m <= 1 THEN 0
    ELSE DaysBeforeMonth(y, m - 1) + DaysInMonth(y, m - 1)

\* The days from 1 January of year 1 to 1 January of year y.
DaysBeforeYear(y) ==
    365 * (y - 1) + ((y - 1) \div 4) - ((y - 1) \div 100)
        + ((y - 1) \div 400)

\* new Date(year, monthIndex, day), local time, as a day of the model: a
\* year of 0..99 is a year of the 1900s, a month index outside 0..11 moves
\* the year, a day outside the month moves the month.
NewDate(year, monthIndex, day) ==
    LET y0 == IF year \in 0..99 THEN 1900 + year ELSE year
        y == y0 + (monthIndex \div 12)
        m == (monthIndex % 12) + 1
    IN DaysBeforeYear(y) + DaysBeforeMonth(y, m) + day
        - (DaysBeforeYear(FirstDay[1])
            + DaysBeforeMonth(FirstDay[1], FirstDay[2]) + FirstDay[3]) + 1

\* A part of a text: the number parseInt reads at its start (NaN when it
\* starts with no digit), and whether other characters follow the digits.
Part(n) == [val |-> n, junk |-> FALSE]
PartJunk(n) == [val |-> n, junk |-> TRUE]

\* A date as the answer gives it: a text of parts joined by a separator, or
\* (str FALSE) a value that is no text.
DateText(sep, parts) == [str |-> TRUE, sep |-> sep, parts |-> parts]
NoText == [str |-> FALSE, sep |-> "/", parts |-> <<>>]

\* text.split('/'): the parts, or the whole text as one part when it is
\* joined by another separator (parseInt then reads its first number).
Split(text) ==
    IF text.sep = "/" \/ Len(text.parts) <= 1 THEN text.parts
    ELSE <<PartJunk(text.parts[1].val)>>

\* parseInt of the k-th part; of undefined when there is none.
ParseIntAt(parts, k) == IF k <= Len(parts) THEN parts[k].val ELSE NaN

\* handleImageUpload, lines 239-249 and 250-260: the day the draft is
\* given for a date of the answer, NULL when the date is dropped (an
\* Invalid Date, or the exception of split on a value that is no text,
\* which is caught).
ParseExtractedDate(text) ==
    IF ~text.str THEN NULL
    ELSE LET parts == Split(text)
             month == ParseIntAt(parts, 1)
             day == ParseIntAt(parts, 2)
             year == ParseIntAt(parts, 3)
         IN IF NaN \in {month, day, year} THEN NULL
            ELSE NewDate(year, month - 1, day)

\* The text MM/DD/YYYY of a day of the month of FirstDay.
TextOfDay(day) ==
    DateText("/", <<Part(FirstDay[2]), Part(FirstDay[3] + day - 1),
                    Part(FirstDay[1])>>)

\* What extract-receipt-info answers when it answers: `has` lists the
\* fields that are there.  It finds nothing, or a store name, an amount and
\* two dates; a date may be one no calendar has (month 13).
Extracted ==
    { [has |-> fields, storeName |-> <<"b">>, amount |-> 2,
       purchaseDate |-> p, returnByDate |-> TextOfDay(Today0)] :
        fields \in { {}, {"storeName", "amount", "purchaseDate",
                          "returnByDate"} },
        p \in { TextOfDay(Today0),
                DateText("/", <<Part(13), Part(1), Part(FirstDay[1])>>) } }

\* How the request to extract-receipt-info ends: the fetch is rejected, the
\* response is not OK, its body is no JSON (or JSON null), or the data.
OcrOutcomes == {"network", "notok", "malformed", "ok"}

\* handleImageUpload, lines 226-228 and 262-264: the message of the error
\* the catch clause shows.
OcrFailureMsg(outcome) ==
    IF outcome = "network" THEN "Failed to fetch"
    ELSE IF outcome = "notok" THEN "Failed to extract receipt info"
    ELSE "Unexpected end of JSON input"

\* The content of a form: its five typed fields and its receipt image.
FormOf(d) ==
    [storeName |-> d.storeName, price |-> d.price,
     purchaseDate |-> d.purchaseDate, returnDate |-> d.returnDate,
     returnedDate |-> d.returnedDate, receiptImage |-> d.receiptImage]

\* The image operations of the dialogs that are in flight.
ImageKinds == {"upload", "compress"}

\* DialogTrigger of the create dialog: setOpen(true); the form keeps what it
\* held.
OpenAdd ==
    /\ draft.dialog = "add" /\ ~draft.open /\ ~FetchLoading
    /\ draft' = [draft EXCEPT !.open = TRUE]
    /\ ev' = NoEvent
    /\ UNCHANGED <<now, tz, db, nextId, returns, ops>>

\* onEdit = setEditingReturn, then the effect on [item], lines 452-463: the
\* form is loaded from the item.
OpenEdit(id) ==
    /\ draft.dialog = "edit" /\ ~draft.open /\ ~FetchLoading
    /\ HasItem(returns, id)
    /\ LET item == FindItem(returns, id)
       IN draft' = [draft EXCEPT
                !.storeName = item.storeName,
                !.purchaseDate = OptToISODate(item.purchaseDate),
                !.returnDate = OptToISODate(item.returnDate),
                !.returnedDate = OptToISODate(item.returnedDate),
                !.price = item.price,
                !.receiptImage = item.receiptImage,
                !.open = TRUE,
                !.item = id]
    /\ ev' = NoEvent
    /\ UNCHANGED <<now, tz, db, nextId, returns, ops>>

\* The dialog is dismissed (Cancel, Escape, a click outside): setOpen(false)
\* in the create dialog, onOpenChange(false) in the edit dialog and in the
\* detail view (Index.tsx line 476: setSelectedReturn(null)).
CloseDialog ==
    /\ draft.open
    /\ draft' = IF draft.dialog = "add" THEN [draft EXCEPT !.open = FALSE]
                                        ELSE CloseForm(draft)
    /\ ev' = NoEvent
    /\ UNCHANGED <<now, tz, db, nextId, returns, ops>>

\* The onChange handlers of the inputs and the calendars: the user fills
\* the form in.
FillForm(f) ==
    /\ draft.open
    /\ [FormOf(draft) EXCEPT !.receiptImage = NoImage] # f
    /\ draft' = [draft EXCEPT !.storeName = f.storeName, !.price = f.price,
                              !.purchaseDate = f.purchaseDate,
                              !.returnDate = f.returnDate,
                              !.returnedDate = f.returnedDate]
    /\ ev' = NoEvent
    /\ UNCHANGED <<now, tz, db, nextId, returns, ops>>

\* The submit button of the create dialog (line 466) is enabled whenever the
\* dialog is open, and handleSubmit reads no busy flag.
SubmitAdd(maxOps, maxRows) ==
    /\ draft.dialog = "add" /\ draft.open
    /\ HandleSubmit(FormOf(draft), maxOps, maxRows)

\* The submit button of the edit dialog is `disabled={isProcessingImage}`,
\* line 762.
SubmitEdit(maxOps) ==
    /\ draft.dialog = "edit" /\ draft.open
    /\ ~draft.busy
    /\ EditSubmit(draft.item, FormOf(draft), maxOps)

\* AddReturnDialog.handleImageUpload, lines 163-172 and 274-280: the size
\* check, then the FileReader is started.  The file input is
\* `disabled={isProcessingOCR}`.
UploadStart(file, maxOps) ==
    /\ draft.dialog = "add" /\ draft.open /\ ~draft.busy
    /\ CanStart(maxOps)
    /\ IF file.size > AddMaxSize
        THEN /\ ev' = Toast("upload", 0,
                    "Image is too large. Please use an image smaller than 5MB")
             /\ ops' = ops
        ELSE /\ ops' = Append(ops, NewOp("upload", "read", 0, file))
             /\ ev' = NoEvent
    /\ UNCHANGED <<now, tz, db, nextId, returns, draft>>

\* reader.onerror (lines 275-278) and reader.onloadend (line 174): after a
\* failed read onloadend still runs, with a result no image can be made of.
UploadRead(i) ==
    /\ ops[i].kind = "upload" /\ ops[i].phase = "read"
    /\ \/ /\ ops' = SetOp(i, [ops[i] EXCEPT !.phase = "decode",
                                            !.res = "error"])
          /\ ev' = Toast("upload", 0, "Failed to read image file")
       \/ /\ ops' = SetOp(i, [ops[i] EXCEPT !.phase = "decode"])
          /\ ev' = NoEvent
    /\ UNCHANGED <<now, tz, db, nextId, returns, draft>>

\* img.onerror (lines 269-272) and img.onload up to the request sent to
\* extract-receipt-info (lines 176-224).
UploadDecode(i) ==
    /\ ops[i].kind = "upload" /\ ops[i].phase = "decode"
    /\ \/ /\ ops' = RemoveAt(ops, i)
          /\ ev' = Toast("upload", 0, "Failed to process image")
          /\ draft' = draft
       \/ /\ ops[i].res = "none"
          /\ draft' = [draft EXCEPT
                !.receiptImage = DataURL(
                    ResizeAdd(ops[i].arg.w, ops[i].arg.h), ops[i].arg.len),
                !.busy = TRUE]
          /\ ops' = SetOp(i, [ops[i] EXCEPT !.phase = "ocr"])
          /\ ev' = Toast("upload", 0, "Extracting receipt information...")
    /\ UNCHANGED <<now, tz, db, nextId, returns>>

\* A date of the answer applied to a date of the draft, lines 239-260.
FillDate(old, text) ==
    IF ParseExtractedDate(text) = NULL THEN old ELSE ParseExtractedDate(text)

\* The fields handleImageUpload fills from the extracted data, lines
\* 234-261: each one when the answer has it.
AutoFill(d, x) ==
    [d EXCEPT !.storeName = IF "storeName" \in x.has THEN x.storeName
                                                       ELSE @,
              !.price = IF "amount" \in x.has THEN x.amount ELSE @,
              !.purchaseDate = IF "purchaseDate" \in x.has
                                    THEN FillDate(@, x.purchaseDate) ELSE @,
              !.returnDate = IF "returnByDate" \in x.has
                                    THEN FillDate(@, x.returnByDate) ELSE @]

\* UploadOcr with a catch clause that leaves the busy flag set.
UploadOcrKeepsBusy(i) ==
    /\ ops[i].kind = "upload" /\ ops[i].phase = "ocr"
    /\ \E outcome \in OcrOutcomes :
        IF outcome # "ok"
            THEN /\ draft' = draft
                 /\ ev' = Toast("upload", 0, OcrFailureMsg(outcome))
            ELSE \E x \in Extracted :
                 /\ draft' = [AutoFill(draft, x) EXCEPT !.busy = FALSE]
                 /\ ev' = Toast("upload", 0,
                        "Receipt info extracted! Please review and edit if needed.")
    /\ ops' = RemoveAt(ops, i)
    /\ UNCHANGED <<now, tz, db, nextId, returns>>

\* handleImageUpload, lines 210-267: the request to extract-receipt-info
\* ends; try, catch and finally.
UploadOcr(i) ==
    /\ ops[i].kind = "upload" /\ ops[i].phase = "ocr"
    /\ \E outcome \in OcrOutcomes :
        IF outcome # "ok"
            THEN /\ draft' = [draft EXCEPT !.busy = FALSE]
                 /\ ev' = Toast("upload", 0, OcrFailureMsg(outcome))
            ELSE \E x \in Extracted :
                 /\ draft' = [AutoFill(draft, x) EXCEPT !.busy = FALSE]
                 /\ ev' = Toast("upload", 0,
                        "Receipt info extracted! Please review and edit if needed.")
    /\ ops' = RemoveAt(ops, i)
    /\ UNCHANGED <<now, tz, db, nextId, returns>>

\* EditReturnDialog.handleImageUpload, lines 616-629: the size check, the
\* busy flag, and compressImage started (lines 549-555 and 611).  The
\* upload button of the dialog is never disabled.
CompressStart(file, maxOps) ==
    /\ draft.dialog = "edit" /\ draft.open
    /\ CanStart(maxOps)
    /\ IF file.size > EditMaxSize
        THEN /\ ev' = Toast("upload", draft.item,
                "Image too large. Please choose an image smaller than 10MB.")
             /\ ops' = ops
             /\ draft' = draft
        ELSE /\ ops' = Append(ops, NewOp("compress", "read", draft.item, file))
             /\ draft' = [draft EXCEPT !.busy = TRUE]
             /\ ev' = Toast("upload", draft.item, "Compressing image...")
    /\ UNCHANGED <<now, tz, db, nextId, returns>>

\* handleImageUpload, lines 648-655: the catch clause.
CompressFailed(d) == [d EXCEPT !.busy = FALSE, !.receiptImage = NoImage]

\* A rejection of the promise of compressImage: handleImageUpload catches it
\* unless the promise was settled before (res "timeout"), when the
\* rejection is without effect.
CompressReject(i) ==
    IF ops[i].res = "none"
        THEN /\ draft' = CompressFailed(draft)
             /\ ev' = Toast("upload", ops[i].id,
                    "Failed to process image. Please try a smaller image.")
        ELSE /\ draft' = draft
             /\ ev' = NoEvent

\* compressImage, lines 553-555: the timer of 30 seconds fires while the
\* file is still read or decoded.  Neither the reader nor the image is
\* stopped.
CompressTimeout(i) ==
    /\ ops[i].kind = "compress" /\ ops[i].phase \in {"read", "decode"}
    /\ ops[i].res = "none"
    /\ CompressReject(i)
    /\ ops' = SetOp(i, [ops[i] EXCEPT !.res = "timeout"])
    /\ UNCHANGED <<now, tz, db, nextId, returns>>

\* compressImage: reader.onerror (lines 607-610) or reader.onload (line 557).
CompressRead(i) ==
    /\ ops[i].kind = "compress" /\ ops[i].phase = "read"
    /\ \/ /\ CompressReject(i)
          /\ ops' = RemoveAt(ops, i)
       \/ /\ ops' = SetOp(i, [ops[i] EXCEPT !.phase = "decode"])
          /\ draft' = draft
          /\ ev' = NoEvent
    /\ UNCHANGED <<now, tz, db, nextId, returns>>

\* compressImage: img.onerror (lines 602-605), an invalid result (lines
\* 589-593) or resolve (line 596), and handleImageUpload lines 631-640.
CompressDecode(i) ==
    /\ ops[i].kind = "compress" /\ ops[i].phase = "decode"
    /\ \/ /\ CompressReject(i)
          /\ ops' = RemoveAt(ops, i)
       \/ IF ops[i].res = "none"
            THEN /\ draft' = [draft EXCEPT !.receiptImage = DataURL(
                        ResizeEdit(ops[i].arg.w, ops[i].arg.h),
                        ops[i].arg.len)]
                 /\ ops' = SetOp(i, [ops[i] EXCEPT !.phase = "settle"])
                 /\ ev' = NoEvent
            ELSE /\ draft' = draft
                 /\ ops' = RemoveAt(ops, i)
                 /\ ev' = NoEvent
    /\ UNCHANGED <<now, tz, db, nextId, returns>>

\* handleImageUpload, lines 642-647: after the wait of 300 ms.
CompressDone(i) ==
    /\ ops[i].kind = "compress" /\ ops[i].phase = "settle"
    /\ draft' = [draft EXCEPT !.busy = FALSE]
    /\ ev' = Toast("upload", ops[i].id, "Receipt uploaded! You can now save.")
    /\ ops' = RemoveAt(ops, i)
    /\ UNCHANGED <<now, tz, db, nextId, returns>>

(***************************************************************************)
(* SpecImage: one record at rest and one dialog, the create dialog or the  *)
(* edit dialog: the user opens it, fills it in, picks files, submits and   *)
(* dismisses it while uploads are in flight.                               *)
(***************************************************************************)
ImageForms == { DatedForm(<<"a">>, Today0, NULL, Today0) }

InitImage ==
    /\ tz = 0
    /\ now = LocalMidnight(Today0)
    /\ db = (1 :> SeedRow(FALSE))
    /\ returns = Loaded(1 :> SeedRow(FALSE))
    /\ nextId = 2
    /\ ops = <<>>
    /\ draft \in { NoDraft, [NoDraft EXCEPT !.dialog = "edit"] }
    /\ ev = NoEvent

NextImage ==
    \/ OpenAdd
    \/ \E id \in ItemIds(returns) : OpenEdit(id)
    \/ CloseDialog
    \/ \E f \in ImageForms : FillForm(f)
    \/ SubmitAdd(MaxOps, MaxRows + 1)
    \/ \E i \in 1..Len(ops) : AddCount(i)
    \/ \E i \in 1..Len(ops) : AddTrigger(i)
    \/ \E i \in 1..Len(ops) : AddInsert(i)
    \/ \E i \in 1..Len(ops) : AddResume(i)
    \/ SubmitEdit(MaxOps)
    \/ \E i \in 1..Len(ops) : EditExec(i)
    \/ \E i \in 1..Len(ops) : SaveExec(i)
    \/ \E i \in 1..Len(ops) : SaveResume(i)
    \/ \E file \in ImageFiles : UploadStart(file, MaxOps)
    \/ \E i \in 1..Len(ops) : UploadRead(i)
    \/ \E i \in 1..Len(ops) : UploadDecode(i)
    \/ \E i \in 1..Len(ops) : UploadOcr(i)
    \/ \E file \in ImageFiles : CompressStart(file, MaxOps)
    \/ \E i \in 1..Len(ops) : CompressTimeout(i)
    \/ \E i \in 1..Len(ops) : CompressRead(i)
    \/ \E i \in 1..Len(ops) : CompressDecode(i)
    \/ \E i \in 1..Len(ops) : CompressDone(i)

SpecImage == InitImage /\ [][NextImage]_vars

(***************************************************************************)
(* SpecResize: the two size computations on pictures of any shape.         *)
(***************************************************************************)
Pixels == { 50, 600, 1199, 1200, 1201, 2400, 3000 }

InitResize ==
    /\ tz = 0
    /\ now = LocalMidnight(Today0)
    /\ db = <<>>
    /\ nextId = 1
    /\ returns = <<>>
    /\ ops = <<>>
    /\ draft \in { [w |-> w, h |-> h] : w \in Pixels, h \in Pixels }
    /\ ev = NoEvent

ApplyResizeAdd ==
    /\ ev' = [op |-> "resizeAdd", id |-> 0, msg |-> "",
              size |-> ResizeAdd(draft.w, draft.h)]
    /\ UNCHANGED <<now, tz, db, nextId, returns, ops, draft>>

ApplyResizeEdit ==
    /\ ev' = [op |-> "resizeEdit", id |-> 0, msg |-> "",
              size |-> ResizeEdit(draft.w, draft.h)]
    /\ UNCHANGED <<now, tz, db, nextId, returns, ops, draft>>

NextResize == ApplyResizeAdd \/ ApplyResizeEdit

SpecResize == InitResize /\ [][NextResize]_vars

(***************************************************************************)
(* SpecParse: the date texts of an answer of extract-receipt-info, as      *)
(* handleImageUpload turns them into dates.                                *)
(***************************************************************************)
DateTexts ==
    { DateText(sep, <<Part(m), Part(d), Part(y)>>) :
        sep \in {"/", "-"}, m \in {0, 1, 2, 12, 13},
        d \in {0, 1, 28, 29, 30, 31, 32}, y \in {2023, 2024} }
    \cup { NoText,
           DateText("/", <<Part(1), Part(2)>>),
           DateText("/", <<Part(1), Part(2), Part(2023), Part(4)>>),
           DateText("/", <<Part(NaN), Part(2), Part(2023)>>),
           DateText("/", <<Part(1), PartJunk(NaN), Part(2023)>>),
           DateText("/", <<Part(1), PartJunk(2), Part(2023)>>),
           DateText("/", <<Part(1), Part(2), Part(23)>>) }

InitParse ==
    /\ tz = 0
    /\ now = LocalMidnight(Today0)
    /\ db = <<>>
    /\ nextId = 1
    /\ returns = <<>>
    /\ ops = <<>>
    /\ draft \in DateTexts
    /\ ev = NoEvent

ApplyParseDate ==
    /\ ev' = [op |-> "parseDate", id |-> 0, msg |-> "",
              day |-> ParseExtractedDate(draft)]
    /\ UNCHANGED <<now, tz, db, nextId, returns, ops, draft>>

NextParse == ApplyParseDate

SpecParse == InitParse /\ [][NextParse]_vars


(***************************************************************************)
(* The detail view: the onClick of a ReturnCard and loadReceiptImage       *)
(* (Index.tsx).  `draft` is selectedReturn, the record the detail dialog   *)
(* shows; its `busy` is loadingReceipt.                                    *)
(***************************************************************************)
\* OpenDetail that asks for the image of every record.
OpenDetailAlwaysLoads(id, maxOps) ==
    /\ draft.dialog = "detail" /\ ~draft.open
    /\ CanStart(maxOps)
    /\ HasItem(returns, id)
    /\ LET item == FindItem(returns, id)
       IN /\ draft' = [draft EXCEPT
                    !.storeName = item.storeName,
                    !.purchaseDate = OptToISODate(item.purchaseDate),
                    !.returnDate = OptToISODate(item.returnDate),
                    !.returnedDate = OptToISODate(item.returnedDate),
                    !.price = item.price,
                    !.receiptImage = item.receiptImage,
                    !.open = TRUE,
                    !.item = id,
                    !.busy = TRUE]
          /\ ops' = Append(ops, NewOp("load", "select", id, NULL))
    /\ ev' = NoEvent
    /\ UNCHANGED <<now, tz, db, nextId, returns>>

\* ReturnCard onClick, lines 459-464: setSelectedReturn(item), and
\* loadReceiptImage(item.id) when the item has a receipt (lines 147-148).
OpenDetail(id, maxOps) ==
    /\ draft.dialog = "detail" /\ ~draft.open
    /\ CanStart(maxOps)
    /\ HasItem(returns, id)
    /\ LET item == FindItem(returns, id)
       IN /\ draft' = [draft EXCEPT
                    !.storeName = item.storeName,
                    !.purchaseDate = OptToISODate(item.purchaseDate),
                    !.returnDate = OptToISODate(item.returnDate),
                    !.returnedDate = OptToISODate(item.returnedDate),
                    !.price = item.price,
                    !.receiptImage = item.receiptImage,
                    !.open = TRUE,
                    !.item = id,
                    !.busy = IF item.hasReceipt THEN TRUE ELSE @]
          /\ ops' = IF item.hasReceipt
                        THEN Append(ops, NewOp("load", "select", id, NULL))
                        ELSE ops
    /\ ev' = NoEvent
    /\ UNCHANGED <<now, tz, db, nextId, returns>>

\* loadReceiptImage, lines 150-154: the select of receipt_image of one row;
\* `.single()` answers an error when the row is not there.
LoadExec(i) ==
    /\ ops[i].kind = "load" /\ ops[i].phase = "select"
    /\ \/ ops' = Failed(i)
       \/ /\ ops[i].id \in DOMAIN db
          /\ ops' = SetOp(i, [ops[i] EXCEPT !.phase = "resp", !.res = "ok",
                                !.data = db[ops[i].id].receipt_image])
    /\ ev' = NoEvent
    /\ UNCHANGED <<now, tz, db, nextId, returns, draft>>

\* loadReceiptImage, lines 156-165: an error is written to the console; an
\* image is given to the record that is selected now; loadingReceipt is
\* cleared.
LoadResume(i) ==
    /\ ops[i].kind = "load" /\ ops[i].phase = "resp"
    /\ draft' = IF ops[i].res = "ok" /\ ops[i].data # NoImage /\ draft.open
                    THEN [draft EXCEPT !.receiptImage = ops[i].data,
                                       !.busy = FALSE]
                    ELSE [draft EXCEPT !.busy = FALSE]
    /\ ops' = RemoveAt(ops, i)
    /\ ev' = NoEvent
    /\ UNCHANGED <<now, tz, db, nextId, returns>>

(***************************************************************************)
(* SpecDetail: two records at rest, the first with a receipt image; the    *)
(* list is fetched, records are opened in the detail view and closed.      *)
(***************************************************************************)
SeedRowWith(img) == [SeedRow(FALSE) EXCEPT !.receipt_image = img]

\* The list fetchReturns builds from a table, the receipts query included.
Fetched(table) ==
    LET order == IdsDesc(DOMAIN table)
    IN [k \in 1..Len(order) |->
            FetchedItem(order[k], table[order[k]],
                { id \in DOMAIN table : table[id].receipt_image # NoImage })]

InitDetail ==
    /\ tz = 0
    /\ now = LocalMidnight(Today0)
    /\ \E img \in {NoImage, <<20, 20, 1>>} :
        /\ db = (1 :> SeedRowWith(<<10, 10, 1>>)) @@ (2 :> SeedRowWith(img))
        /\ returns = Fetched((1 :> SeedRowWith(<<10, 10, 1>>))
                                @@ (2 :> SeedRowWith(img)))
    /\ nextId = 3
    /\ ops = <<>>
    /\ draft = [NoDraft EXCEPT !.dialog = "detail"]
    /\ ev = NoEvent

NextDetail ==
    \/ \E id \in ItemIds(returns) : OpenDetail(id, MaxOps)
    \/ CloseDialog
    \/ \E i \in 1..Len(ops) : LoadExec(i)
    \/ \E i \in 1..Len(ops) : LoadResume(i)
    \/ FetchStart(MaxOps)
    \/ \E i \in 1..Len(ops) : FetchSelect(i)
    \/ \E i \in 1..Len(ops) : FetchReceipts(i)
    \/ \E i \in 1..Len(ops) : FetchResume(i)

SpecDetail == InitDetail /\ [][NextDetail]_vars

\* ======================= model above, properties below =======================

(***************************************************************************)
(* The record rules of the data model, on a form content f whose dates are *)
(* calendar days, with the local calendar day of `now` as today.           *)
(***************************************************************************)
Today == LocalDay(now)

RulePurchase(f) == f.purchaseDate # NULL /\ f.purchaseDate <= Today

RuleReturned(f) ==
    f.returnedDate # NULL =>
        (f.purchaseDate <= f.returnedDate /\ f.returnedDate <= Today)

RuleReturnBy(f) == f.returnDate # NULL => f.returnDate >= f.purchaseDate

RulePrice(f) == f.price # NaN /\ 0 < f.price /\ f.price <= MaxPrice

RuleName(f) ==
    Len(Trim(f.storeName)) >= 1 /\ Len(Trim(f.storeName)) <= MaxNameLen

FiveRules(f) ==
    RulePurchase(f) /\ RuleReturned(f) /\ RuleReturnBy(f) /\ RulePrice(f)
    /\ RuleName(f)

RuleReturnByNotPast(f) == f.returnDate # NULL => f.returnDate >= Today

SchemaMsgs ==
    { "Store name is required", "Store name must be less than 100 characters",
      "Expected number, received nan", "Price must be greater than 0",
      "Price must be less than 1,000,000", "Purchase date is required",
      "Date returned is required" }

(***************************************************************************)
(* C3.  The create form rejects a draft iff one of the five record rules   *)
(* is violated.                                                            *)
(***************************************************************************)
\* C3 as stated: the create-form validation rejects the draft if and only if
\* one of the five rules (purchase date, returned date, return-by date, price,
\* store name) is violated.
C3_AsStated ==
    ev.op = "validateAdd" => ((ev.msg # "ok") <=> ~FiveRules(draft))

\* C3 amended: the create form also rejects a return-by date before today.  It
\* rejects iff one of the five rules or that sixth one is violated; a draft
\* without optional dates and otherwise valid is accepted; a draft with
\* purchaseDate = tomorrow and nothing else in the future is rejected for the
\* future purchase date.
C3_CreateValidation ==
    ev.op = "validateAdd" =>
        /\ (ev.msg # "ok") <=> ~(FiveRules(draft) /\ RuleReturnByNotPast(draft))
        /\ (/\ draft.returnDate = NULL /\ draft.returnedDate = NULL
            /\ RulePurchase(draft) /\ RulePrice(draft) /\ RuleName(draft))
           => ev.msg = "ok"
        /\ (/\ draft.purchaseDate = Today + 1
            /\ RulePrice(draft) /\ RuleName(draft)
            /\ (draft.returnedDate = NULL \/ draft.returnedDate <= Today))
           => ev.msg = "Purchase date cannot be in the future"

\* C3 witness: a draft that keeps all five rules, with a return-by date in the
\* past, has been validated and rejected.
C3_Witness ==
    /\ ev.op = "validateAdd"
    /\ FiveRules(draft)
    /\ draft.returnDate # NULL /\ draft.returnDate < Today
    /\ ev.msg = "Return by date cannot be in the past"

CreateChecks(f) ==
    << <<f.purchaseDate = NULL, "Purchase date is required">>,
       <<Len(Trim(f.storeName)) < 1, "Store name is required">>,
       <<Len(Trim(f.storeName)) > MaxNameLen,
         "Store name must be less than 100 characters">>,
       <<f.price = NaN, "Expected number, received nan">>,
       <<f.price <= 0, "Price must be greater than 0">>,
       <<f.price > MaxPrice, "Price must be less than 1,000,000">>,
       <<f.returnedDate # NULL /\ f.returnedDate > Today,
         "Date returned cannot be in the future">>,
       <<f.purchaseDate > Today, "Purchase date cannot be in the future">>,
       <<f.returnedDate # NULL /\ f.returnedDate < f.purchaseDate,
         "Date returned must be on or after purchase date">>,
       <<f.returnDate # NULL /\ f.returnDate < Today,
         "Return by date cannot be in the past">>,
       <<f.returnDate # NULL /\ f.returnDate < f.purchaseDate,
         "Return by date must be on or after purchase date">> >>

FirstFailing(checks) ==
    IF \E i \in 1..Len(checks) : checks[i][1]
        THEN checks[CHOOSE i \in 1..Len(checks) :
                        /\ checks[i][1]
                        /\ \A j \in 1..(i - 1) : ~checks[j][1]][2]
        ELSE "ok"

OthersValid(f) ==
    /\ RulePurchase(f) /\ RulePrice(f) /\ RuleName(f) /\ RuleReturnBy(f)
    /\ ev.op = "validateAdd" => RuleReturnByNotPast(f)

\* C5: with all other fields valid, a returned date is accepted exactly when
\* purchaseDate <= returnedDate <= today, both bounds inclusive, and
\* returnedDate = today + 1 is rejected as a returned date in the future; in
\* the create form and in the edit form.
C5_ReturnedDateBounds ==
    (/\ ev.op \in {"validateAdd", "validateEdit"}
     /\ OthersValid(draft) /\ draft.returnedDate # NULL) =>
        /\ (ev.msg = "ok") <=>
              (/\ draft.purchaseDate <= draft.returnedDate
               /\ draft.returnedDate <= Today)
        /\ draft.returnedDate = Today + 1
              => ev.msg = "Date returned cannot be in the future"

\* The same for the create form alone.
C5_CreateForm == ev.op = "validateAdd" => C5_ReturnedDateBounds

(***************************************************************************)
(* Steps of the asynchronous handlers, as the properties below see them.   *)
(***************************************************************************)
\* What tells two invocations in flight apart (their arguments are of
\* different kinds and are not compared).
OpKey(op) == <<op.kind, op.phase, op.id, op.res, op.snap>>

\* The step is the last one of invocation i: it left the invocations in flight.
Ended(i) ==
    /\ Len(ops') = Len(ops) - 1
    /\ \A j \in 1..Len(ops') :
            OpKey(ops'[j]) = OpKey(ops[IF j < i THEN j ELSE j + 1])

\* The step is one of invocation i: it moved on to its next phase, or ended.
Moved(i) ==
    IF Len(ops') = Len(ops) THEN OpKey(ops'[i]) # OpKey(ops[i]) ELSE Ended(i)

LimitMsg ==
    "Maximum return limit reached (25 per user). Please delete old returns to add new ones."

VerifyFailedMsg == "Failed to verify return limit. Please try again."

(***************************************************************************)
(* C1.  A user owns at most 25 records.                                    *)
(***************************************************************************)
\* C1: in every reachable state of the store, after any creates and deletes
\* (creates that race the count pre-check included), the user owns at most 25
\* return records.
C1_AtMostLimit == RowCount(db) <= ReturnLimit

(***************************************************************************)
(* C2.  The create at the limit and the create one below it.               *)
(***************************************************************************)
\* C2: when the count query of a submitted valid draft is answered with the
\* user owning exactly 25 records, the submit ends with the limit-reached
\* error and nothing is inserted; when it is answered with exactly 24, the
\* submit goes on to the insert; an insert the store runs at 24 records (the
\* request not failing) passes the trigger and commits, the user then owns
\* 25, and the handler adds the new record to the list with a success toast.
C2_LimitBoundary ==
    [][\A i \in 1..Len(ops) :
        (ops[i].kind = "add" /\ Moved(i)) =>
            /\ (/\ ops[i].phase = "count" /\ RowCount(db) = ReturnLimit
                /\ ev'.msg # VerifyFailedMsg)
               => (ev'.msg = LimitMsg /\ Ended(i) /\ db' = db)
            /\ (/\ ops[i].phase = "count" /\ RowCount(db) = ReturnLimit - 1
                /\ ev'.msg # VerifyFailedMsg)
               => (~Ended(i) /\ ops'[i].phase = "insert")
            /\ (/\ ops[i].phase = "insert" /\ RowCount(db) = ReturnLimit - 1
                /\ ops'[i].res # "error")
               => ops'[i].phase = "checked"
            /\ (ops[i].phase = "checked" /\ RowCount(db) = ReturnLimit - 1)
               => (/\ RowCount(db') = ReturnLimit
                   /\ ops'[i].phase = "resp" /\ ops'[i].res = "ok"
                   /\ ops'[i].id \in DOMAIN db')
            /\ (ops[i].phase = "resp" /\ ops[i].res = "ok")
               => (/\ ev'.msg = "Return added successfully!"
                   /\ returns'[1].id = ops[i].id)
    ]_vars

\* C2 witness: the user owns 25 records, one of them created in this run (as
\* the 25th), and a further submit has just been rejected with the
\* limit-reached error.
C2_Witness ==
    /\ ev.op = "submit" /\ ev.msg = LimitMsg
    /\ RowCount(db) = ReturnLimit
    /\ \E id \in DOMAIN db : db[id].return_date = NULL
    /\ \A i \in 1..Len(ops) : ops[i].kind # "add"

(***************************************************************************)
(* C6.  The record rules hold for every record at rest.                    *)
(***************************************************************************)
\* The rules on a row of the store, whose dates are calendar days.
RowRules(row) ==
    /\ row.purchase_date # NULL /\ row.purchase_date <= Today
    /\ row.returned_date # NULL =>
            (/\ row.purchase_date <= row.returned_date
             /\ row.returned_date <= Today)
    /\ row.return_date # NULL => row.return_date >= row.purchase_date
    /\ 0 < row.amount /\ row.amount <= MaxPrice
    /\ Len(Trim(row.store_name)) >= 1

\* The rules on a record of the list, whose dates are instants: by the
\* calendar days the instants fall on in the user's time zone.
ItemRules(r) ==
    /\ r.purchaseDate # NULL /\ LocalDay(r.purchaseDate) <= Today
    /\ r.returnedDate # NULL =>
            (/\ LocalDay(r.purchaseDate) <= LocalDay(r.returnedDate)
             /\ LocalDay(r.returnedDate) <= Today)
    /\ r.returnDate # NULL => LocalDay(r.returnDate) >= LocalDay(r.purchaseDate)
    /\ 0 < r.price /\ r.price <= MaxPrice
    /\ Len(Trim(r.storeName)) >= 1

\* C6: after any sequence of create, edit and markReturned, every row of the
\* store and every record of the in-memory list has purchaseDate <= today,
\* returnedDate (if present) between purchaseDate and today, returnByDate (if
\* present) >= purchaseDate, 0 < price <= 999999.99 and a store name that is
\* not empty after trimming.
C6_RecordRules ==
    /\ \A id \in DOMAIN db : RowRules(db[id])
    /\ \A k \in 1..Len(returns) : ItemRules(returns[k])

(***************************************************************************)
(* C7.  A created record starts pending, with the draft's optional dates.  *)
(***************************************************************************)
OptLocalDay(t) == IF t = NULL THEN NULL ELSE LocalDay(t)

\* C7: when a successful create hands its record to the list, the row it
\* committed has refund_received = false, the record of the list has
\* refundReceived = false and status "pending", and in both the returned date
\* and the return-by date are the calendar days of the draft (null when the
\* draft has none).
C7_CreateStartsPending ==
    [][\A i \in 1..Len(ops) :
        (/\ ops[i].kind = "add" /\ ops[i].phase = "resp" /\ ops[i].res = "ok"
         /\ Ended(i)) =>
            LET d == ops[i].arg
                row == ops[i].data
                item == returns'[1]
            IN /\ item.id = ops[i].id
               /\ row.refund_received = FALSE
               /\ item.refundReceived = FALSE /\ item.status = "pending"
               /\ row.returned_date = OptLocalDay(d.returnedDate)
               /\ row.return_date = OptLocalDay(d.returnDate)
               /\ OptLocalDay(item.returnedDate) = OptLocalDay(d.returnedDate)
               /\ OptLocalDay(item.returnDate) = OptLocalDay(d.returnDate)
    ]_vars

\* The part of C7 that does not depend on the time zone: the record starts
\* pending, and an optional date is null exactly when the draft has none.
C7_PendingOnly ==
    [][\A i \in 1..Len(ops) :
        (/\ ops[i].kind = "add" /\ ops[i].phase = "resp" /\ ops[i].res = "ok"
         /\ Ended(i)) =>
            /\ returns'[1].id = ops[i].id
            /\ ops[i].data.refund_received = FALSE
            /\ returns'[1].refundReceived = FALSE
            /\ returns'[1].status = "pending"
            /\ (ops[i].arg.returnedDate = NULL <=> returns'[1].returnedDate = NULL)
            /\ (ops[i].arg.returnDate = NULL <=> returns'[1].returnDate = NULL)
    ]_vars

(***************************************************************************)
(* C8.  Two toggles restore the record.                                    *)
(***************************************************************************)
\* C8: a toggle whose update succeeds inverts refund_received of the row,
\* and when it resumes it inverts refundReceived of the record of the list
\* and sets the status to match; so two toggles of one record, both
\* succeeding, leave refundReceived and status as they were before the first,
\* in the store and in the list, also when the second is invoked before the
\* first has completed.
C8_ToggleTwiceRestores ==
    [][\A i \in 1..Len(ops) :
        (ops[i].kind = "toggle" /\ Moved(i)) =>
            /\ (ops[i].phase = "update" /\ ops'[i].res = "ok") =>
                db'[ops[i].id].refund_received = ~db[ops[i].id].refund_received
            /\ (ops[i].phase = "resp" /\ ops[i].res = "ok") =>
                LET before == FindItem(returns, ops[i].id)
                    after == FindItem(returns', ops[i].id)
                IN /\ after.refundReceived = ~before.refundReceived
                   /\ after.status = StatusOf(~before.refundReceived)
    ]_vars

(***************************************************************************)
(* C9.  markComplete forces refundReceived = true.                         *)
(***************************************************************************)
\* C9: when the update of a markComplete succeeds, the row has
\* refund_received = true and no other row changes, and a row that had it
\* already is left as it was; when the handler then resumes, the record of
\* the list has refundReceived = true and status "completed" whatever it had
\* before, a record that had them already is left as it was, and no record
\* is left with refundReceived = false by it.
C9_MarkCompleteForcesTrue ==
    [][\A i \in 1..Len(ops) :
        (ops[i].kind = "complete" /\ Moved(i)) =>
            /\ (ops[i].phase = "update" /\ ops'[i].res = "ok") =>
                /\ DOMAIN db' = DOMAIN db
                /\ \A id \in DOMAIN db :
                    db'[id] = IF id = ops[i].id
                                THEN [db[id] EXCEPT !.refund_received = TRUE]
                                ELSE db[id]
                /\ (ops[i].id \in DOMAIN db /\ db[ops[i].id].refund_received)
                   => db' = db
            /\ (ops[i].phase = "resp" /\ ops[i].res = "ok") =>
                /\ HasItem(returns', ops[i].id)
                /\ \A k \in 1..Len(returns') :
                    returns'[k].id = ops[i].id =>
                        /\ returns'[k].refundReceived = TRUE
                        /\ returns'[k].status = "completed"
                /\ (LET r == FindItem(ops[i].snap, ops[i].id)
                    IN (r.refundReceived /\ r.status = "completed")
                            => returns' = ops[i].snap)
                /\ db' = db
    ]_vars

\* C9 witness: a markComplete of a record that was pending has just succeeded:
\* the record is completed in the list and the row has refund_received.
C9_Witness ==
    /\ ev.op = "complete" /\ ev.msg = "Return marked as complete!"
    /\ HasItem(returns, ev.id)
    /\ FindItem(returns, ev.id).refundReceived
    /\ FindItem(returns, ev.id).status = "completed"
    /\ ev.id \in DOMAIN db /\ db[ev.id].refund_received

(***************************************************************************)
(* C10.  status is "completed" iff refundReceived.                         *)
(***************************************************************************)
\* C10: in every reachable state every record of the in-memory list has
\* status "completed" if and only if its refundReceived is true, and
\* "pending" otherwise.
C10_StatusDerived ==
    \A k \in 1..Len(returns) :
        /\ returns[k].status \in {"completed", "pending"}
        /\ returns[k].status = "completed" <=> returns[k].refundReceived = TRUE

\* C10 witness: a toggle has just taken a completed record back to pending.
C10_Witness ==
    /\ ev.op = "toggle" /\ ev.msg = "Refund status updated"
    /\ HasItem(returns, ev.id)
    /\ FindItem(returns, ev.id).status = "pending"
    /\ ~FindItem(returns, ev.id).refundReceived

(***************************************************************************)
(* C11.  markReturned takes effect only for a date between the purchase    *)
(* date and today.                                                         *)
(***************************************************************************)
\* What C11 says of a step of the markReturned invocation i.
MarkReturnedInRange(i) ==
    /\ (/\ ops[i].phase = "update" /\ ops'[i].res = "ok"
        /\ ops[i].id \in DOMAIN db) =>
        LET day == LocalDay(ops[i].arg)
            row == db[ops[i].id]
        IN /\ row.purchase_date <= day /\ day <= LocalDay(now)
           /\ db'[ops[i].id] = [row EXCEPT !.returned_date = day]
    /\ (/\ ops[i].phase = "resp" /\ ops[i].res = "ok"
        /\ HasItem(returns, ops[i].id)) =>
        LET before == FindItem(returns, ops[i].id)
            after == FindItem(returns', ops[i].id)
        IN /\ LocalDay(after.returnedDate) = LocalDay(ops[i].arg)
           /\ after.refundReceived = before.refundReceived
           /\ after.status = before.status

\* C11: when a markReturned takes effect, the calendar day the user picked
\* lies between the record's purchase date and today, the row's returned date
\* becomes that day and nothing else of the row changes; and when the handler
\* resumes, the record of the list has that day as its returned date and its
\* refundReceived and status are as they were.
C11_MarkReturnedInRange ==
    [][\A i \in 1..Len(ops) :
        (ops[i].kind = "returned" /\ Moved(i)) => MarkReturnedInRange(i)
    ]_vars

(***************************************************************************)
(* C12.  An edit that fails the validation changes nothing.                *)
(***************************************************************************)
\* The messages with which the edit form rejects a form content.
EditRejections ==
    SchemaMsgs \cup
    { "Date returned must be on or after purchase date",
      "Date returned cannot be in the future",
      "Return by date must be on or after purchase date" }

\* C12: a step in which the edit form rejects its content changes no row of
\* the store and no record of the list and sends no update; and every edit
\* whose updates are sent or about to be sent has a form content that keeps
\* all five record rules, purchaseDate <= today included.
C12_EditAllOrNothing ==
    [][/\ (ev'.op = "edit" /\ ev'.msg \in EditRejections)
            => (db' = db /\ returns' = returns /\ ops' = ops)
       /\ \A i \in 1..Len(ops) :
            ops[i].kind = "edit" => FiveRules(ops[i].arg)
       /\ (db' # db) =>
            \E i \in 1..Len(ops) :
                /\ ops[i].kind = "edit" /\ Moved(i)
                /\ FiveRules(ops[i].arg)
    ]_vars

\* C12 witness: after an edit that was committed, a further edit with a
\* returned date before its purchase date has just been rejected, and the row
\* is as the committed edit left it.
C12_Witness ==
    /\ ev.op = "edit"
    /\ ev.msg = "Date returned must be on or after purchase date"
    /\ ops = <<>>
    /\ db[1].purchase_date = Today0 /\ db[1].returned_date = Today0
    /\ returns[1].returnedDate = ParseISODate(Today0)

(***************************************************************************)
(* C13.  A deleted record does not come back.                              *)
(***************************************************************************)
\* C13: the store gives every new row an id it has never used, and a row
\* leaves the store only by a delete that succeeded; so a record that was
\* deleted never comes back exactly when no step brings an old id back into
\* the store and no step puts into the list an id that the store does not
\* hold, whatever was in flight when the delete completed.
C13_DeletedStaysGone ==
    [][/\ \A id \in (DOMAIN db') \ (DOMAIN db) : id = nextId
       /\ \A id \in ItemIds(returns') \ ItemIds(returns) : id \in DOMAIN db'
    ]_vars

(***************************************************************************)
(* C14.  A failed remote call leaves the list alone.                       *)
(***************************************************************************)
RecordHandlers == {"edit", "delete", "toggle", "complete", "returned"}

\* C14: a step of an edit, delete, toggleRefund, markComplete or markReturned
\* changes the list only when it is the handler resuming after its remote
\* call has succeeded: the invocation, the remote call itself and the
\* handler resuming after an error leave the list exactly as it was; and
\* the list changes in no step but the resuming of a handler whose remote
\* call has succeeded (or of a fetch).
C14_ErrorLeavesList ==
    [][/\ \A i \in 1..Len(ops) :
            (/\ ops[i].kind \in RecordHandlers /\ Moved(i)
             /\ ~(ops[i].phase = "resp" /\ ops[i].res = "ok"))
                => returns' = returns
       /\ Len(ops') > Len(ops) => returns' = returns
       /\ returns' # returns =>
            \E i \in 1..Len(ops) :
                /\ Ended(i) /\ ops[i].phase = "resp"
                /\ ops[i].res = "ok" \/ ops[i].kind = "fetch"
    ]_vars

\* C14 witness: a delete has just failed: the record is still in the list and
\* its row is still in the store.
C14_Witness ==
    /\ ev.op = "delete" /\ ev.msg = "Failed to delete return"
    /\ HasItem(returns, ev.id)
    /\ ev.id \in DOMAIN db

(***************************************************************************)
(* C15.  The refund reminder.                                              *)
(***************************************************************************)
\* The reminder as the data model defines it, on a row of the store.
ReminderDue(row) ==
    /\ row.returned_date # NULL
    /\ ~row.refund_received
    /\ Today - row.returned_date >= ReminderDays

\* C15: for every record and every current date, the signal of the card is
\* true exactly when the returned date is present, the refund has not been
\* received and today - returnedDate >= 3 days (true at today - 3, false at
\* today - 2, false with the refund received); and the notification check
\* gives the same answer for the same record and date.
C15_RefundReminder ==
    /\ ev.op = "cards" =>
        \A k \in 1..Len(returns) :
            ev.reminder[k] <=> ReminderDue(db[returns[k].id])
    /\ ev.op = "notify" =>
        \A id \in DOMAIN db :
            (id \in DOMAIN ev.refund /\ ev.refund[id]) <=> ReminderDue(db[id])

(***************************************************************************)
(* C16.  The deadline classification.                                      *)
(***************************************************************************)
\* The classification as the data model defines it, on a row of the store.
DeadlineClass(row) ==
    IF row.refund_received \/ row.return_date = NULL THEN "none"
    ELSE IF Today > row.return_date THEN "overdue"
    ELSE IF row.return_date <= Today + DueSoonDays THEN "due soon"
    ELSE "none"

\* C16: a record whose refund has not been received and that has a return-by
\* date is classified "overdue" exactly when today > returnByDate and "due
\* soon" exactly when today <= returnByDate <= today + 3, never both; a
\* record with the refund received or without a return-by date gets neither.
C16_DeadlineClass ==
    ev.op = "notify" =>
        \A id \in DOMAIN db :
            (IF id \in DOMAIN ev.deadline THEN ev.deadline[id] ELSE "none")
                = DeadlineClass(db[id])

(***************************************************************************)
(* Receipt images and the forms.                                           *)
(***************************************************************************)
\* An image operation started from the form is in flight: it has neither
\* finished nor been given up by its timeout.
ImageInFlight ==
    \E i \in 1..Len(ops) :
        ops[i].kind \in ImageKinds /\ ops[i].res # "timeout"

\* The step is a submit of the form: it committed a validation result (the
\* message of the failing check is shown) or it went on to the store.
SubmitStep ==
    \/ /\ ops' = ops
       /\ ev'.op \in {"submit", "edit"}
    \/ /\ Len(ops') = Len(ops) + 1
       /\ ops'[Len(ops')].kind \in {"add", "edit"}

\* C17: while an image compression or an OCR extraction started from a
\* form is in flight, no submit of that form takes place: no validation
\* result is committed and no create or edit is started.
C17_SubmitBlocked == [][ImageInFlight => ~SubmitStep]_vars

\* The part of C17 on the edit dialog alone.
C17_EditDialog ==
    [][(draft.dialog = "edit" /\ ImageInFlight) => ~SubmitStep]_vars

\* The fields of a draft: what the user typed and the receipt image.
FormFields(d) ==
    <<d.storeName, d.price, d.purchaseDate, d.returnDate, d.returnedDate,
      d.receiptImage>>

\* The step is one of image operation i, and it comes late: the timeout of
\* the operation has fired, or the form it was started from has been
\* submitted or dismissed and is closed.
LateImageStep(i) ==
    /\ ops[i].kind \in ImageKinds
    /\ Moved(i)
    /\ ops[i].res = "timeout" \/ ~draft.open

\* C18: the result of an image compression or of an OCR extraction that
\* arrives after the timeout of the operation has fired, or after the
\* draft it was started for has been submitted, cancelled or reset, is
\* discarded: the step changes no field of the current draft.
C18_LateResultDiscarded ==
    [][\A i \in 1..Len(ops) :
            LateImageStep(i) => FormFields(draft') = FormFields(draft)]_vars

\* The part of C18 on the timeout alone: once the timeout of a compression
\* has fired, no later step of it changes a field of the draft.
C18_AfterTimeout ==
    [][\A i \in 1..Len(ops) :
            (ops[i].kind \in ImageKinds /\ Moved(i)
                /\ ops[i].res = "timeout")
                => FormFields(draft') = FormFields(draft)]_vars

\* The part of C18 on the edit dialog alone.
C18_EditDialog ==
    [][\A i \in 1..Len(ops) :
            (draft.dialog = "edit" /\ LateImageStep(i))
                => FormFields(draft') = FormFields(draft)]_vars

\* The messages of a failed upload: the file over the size ceiling, the
\* file that cannot be read, the picture that cannot be decoded or
\* compressed, the timeout.
SizeFailures ==
    { "Image is too large. Please use an image smaller than 5MB",
      "Image too large. Please choose an image smaller than 10MB." }

UploadFailures ==
    SizeFailures \cup
    { "Failed to read image file",
      "Failed to process image",
      "Failed to process image. Please try a smaller image." }

\* C19: after a failed image upload attempt (file over the size ceiling,
\* unreadable file, undecodable picture, invalid compression output,
\* timeout) the receipt image of the draft is empty, also when the draft
\* held a picture from an earlier upload.
C19_FailedUploadClearsImage ==
    (ev.op = "upload" /\ ev.msg \in UploadFailures)
        => draft.receiptImage = NoImage

\* The part of C19 on the failures of compressImage in the edit dialog.
C19_EditCompressFailure ==
    (ev.op = "upload" /\ draft.dialog = "edit"
        /\ ev.msg \in UploadFailures \ SizeFailures)
        => draft.receiptImage = NoImage

\* The part of C19 on the edit dialog, the size ceiling included.
C19_EditDialog ==
    (ev.op = "upload" /\ draft.dialog = "edit" /\ ev.msg \in UploadFailures)
        => draft.receiptImage = NoImage

(***************************************************************************)
(* The size of the compressed picture.                                     *)
(***************************************************************************)
\* The size the claim gives a picture of w by h pixels: the width capped at
\* 1200, the height scaled by the same factor (whole pixels).
ScaledByWidth(w, h) ==
    IF w > 1200 THEN <<1200, (h * 1200) \div w>> ELSE <<w, h>>

\* C20: the compressed output of a picture of w by h pixels is min(w, 1200)
\* wide and its height is scaled by the same factor: a picture 50 pixels
\* wide is not resized, one 3000 pixels wide comes out 1200 wide, and the
\* height is never capped on its own, whatever the orientation.
C20_WidthOnlyScaling ==
    ev.op \in {"resizeAdd", "resizeEdit"}
        => ev.size = ScaledByWidth(draft.w, draft.h)

\* The part of C20 on compressImage of the edit dialog.
C20_EditDialog ==
    ev.op = "resizeEdit" => ev.size = ScaledByWidth(draft.w, draft.h)

(***************************************************************************)
(* The extraction of the receipt's data (OCR).                             *)
(***************************************************************************)
\* The messages of a failed extraction.
OcrFailures == { OcrFailureMsg(o) : o \in OcrOutcomes \ {"ok"} }

\* The fields of a draft the extraction may fill.
OcrFields(d) == <<d.storeName, d.price, d.purchaseDate, d.returnDate>>

\* The step is the end of the extraction request of upload i.
OcrStep(i) ==
    /\ ops[i].kind = "upload" /\ ops[i].phase = "ocr"
    /\ Ended(i)

C22_MergeKeepsEntered ==
    [][\A i \in 1..Len(ops) :
            OcrStep(i)
                => /\ draft.storeName # <<>>
                        => draft'.storeName = draft.storeName
                   /\ draft.price # NaN => draft'.price = draft.price
                   /\ draft.purchaseDate # NULL
                        => draft'.purchaseDate = draft.purchaseDate
                   /\ draft.returnDate # NULL
                        => draft'.returnDate = draft.returnDate]_vars

\* The text is a calendar date in the form MM/DD/YYYY.
ValidDateText(text) ==
    /\ text.str
    /\ text.sep = "/"
    /\ Len(text.parts) = 3
    /\ \A k \in 1..3 : text.parts[k].val # NaN /\ ~text.parts[k].junk
    /\ text.parts[1].val \in 1..12
    /\ text.parts[3].val \in 1000..9999
    /\ text.parts[2].val \in
            1..DaysInMonth(text.parts[3].val, text.parts[1].val)

\* C23: an extracted date is applied only when its text is a calendar date
\* in the form MM/DD/YYYY, and then as that date; any other text is
\* dropped and leaves the date of the draft as it was.
C23_OnlyValidDates ==
    ev.op = "parseDate"
        => IF ValidDateText(draft)
            THEN ev.day = NewDate(draft.parts[3].val,
                                  draft.parts[1].val - 1,
                                  draft.parts[2].val)
            ELSE ev.day = NULL

\* The part of C23 on the texts the handler does drop: a value that is no
\* text, a part that is missing or starts with no digit, another separator.
C23_DropsUnreadable ==
    (ev.op = "parseDate"
        /\ (~draft.str \/ draft.sep # "/" \/ Len(draft.parts) < 3
            \/ \E k \in 1..Len(draft.parts) : draft.parts[k].val = NaN))
        => ev.day = NULL

(***************************************************************************)
(* The receipt image of an edit and the local image store.                 *)
(***************************************************************************)
ImageSaveWarning == "Return updated but failed to save receipt image"

\* C24: when the record write of an edit has succeeded and saving the
\* receipt image to the local image store fails, the record stays written
\* (no step of the edit takes the row or the write back), the user is
\* shown a warning that is not the message of a failed write, the edit
\* goes on, and when its second write succeeds too the in-memory list is
\* updated with the record.  (A step is told to be the one of edit i when
\* no other invocation in flight is at the same point.)
C24_ImageSaveFailureKeepsRecord ==
    [][\A i \in 1..Len(ops) :
        (ops[i].kind = "edit" /\ Moved(i) /\ ops[i].id \in DOMAIN db
            /\ \A j \in 1..Len(ops) :
                    j # i => OpKey(ops[j]) # OpKey(ops[i]))
            => LET id == ops[i].id
                   written == EditedRow(db[id], ops[i].arg)
                   saved == SavedRow(db[id], EditData(ops[i].arg))
               IN /\ DOMAIN db' = DOMAIN db
                  /\ (ops[i].phase = "update" /\ ev'.msg = ImageSaveWarning)
                        => /\ db'[id] = written
                           /\ ~Ended(i)
                           /\ ops'[i].phase = "save"
                           /\ ImageSaveWarning # "Failed to update return"
                  /\ ops[i].phase = "save" => db'[id] \in {db[id], saved}
                  /\ ops[i].phase = "resp" => db' = db
                  /\ (ops[i].phase = "resp" /\ ops[i].res = "ok"
                        /\ HasItem(ops[i].snap, id))
                        => /\ HasItem(returns', id)
                           /\ FindItem(returns', id) =
                                SavedItem(FindItem(ops[i].snap, id),
                                          EditData(ops[i].arg))]_vars

C24_Witness ==
    /\ ev.op = "edit" /\ ev.msg = ImageSaveWarning
    /\ Len(ops) = 1 /\ ops[1].kind = "edit" /\ ops[1].phase = "save"
    /\ db[1].returned_date = Today0
    /\ ops[1].arg.receiptImage # NoImage

\* The step starts a load of image bytes.
LoadStarted ==
    /\ Len(ops') = Len(ops) + 1
    /\ ops'[Len(ops')].kind = "load"

FailedRequestEnds ==
    \E i \in 1..Len(ops) :
        /\ Ended(i)
        /\ \/ ops[i].kind = "fetch" /\ ops[i].phase = "select"
           \/ ops[i].kind = "load" /\ ops[i].phase = "resp"
                /\ ops[i].res = "error"

\* C26: every failing operation shows exactly one error notification: the
\* step that ends a failed fetch of the list or a failed load of a receipt
\* image shows a message, and only one.
C26_FailureShowsOneError ==
    [][FailedRequestEnds =>
        /\ ev'.msg # NoEvent.msg
        /\ DOMAIN ev' = DOMAIN NoEvent]_vars

\* The failed fetch of the list does show its one message.
C26_FetchFailureShown ==
    [][(\E i \in 1..Len(ops) :
            Ended(i) /\ ops[i].kind = "fetch" /\ ops[i].phase = "select")
        => ev' = Toast("fetch", 0, "Failed to load returns")]_vars

AddedMsg == "Return added successfully!"

\* The step is one of an add invocation whose row is in the store after it.
PersistedAddStep ==
    \E i \in 1..Len(ops) :
        /\ ops[i].kind = "add"
        /\ Moved(i)
        /\ ops[i].id \in DOMAIN db'

\* The step is one of an add invocation that closes the form.
AddClosesForm ==
    /\ draft.dialog = "add" /\ draft.open /\ ~draft'.open
    /\ \E i \in 1..Len(ops) : ops[i].kind = "add" /\ Moved(i)

\* C27: the add form shows "Return added successfully!", and is emptied and
\* closed by its submit, only in a step of an add whose record is in the
\* store; a refusal of the add (its message in `before`) never comes with
\* the success message.
C27_SuccessOnlyWhenPersisted ==
    [][((ev'.op = "submit" /\ ev'.msg = AddedMsg) \/ AddClosesForm) =>
            /\ PersistedAddStep
            /\ "before" \notin DOMAIN ev']_vars

\* An add is refused by the store after its form has reported success and
\* was closed.
C27_NeverRefusedAfterSuccess ==
    \A i \in 1..Len(ops) :
        ops[i].kind = "add" /\ ops[i].phase = "resp" => ops[i].res = "ok"

\* The fields of a record of the list that the store holds as columns, the
\* dates as the ISO days the handlers write.
StoredFields(r) ==
    <<r.storeName, r.price, OptToISODate(r.purchaseDate),
      OptToISODate(r.returnDate), OptToISODate(r.returnedDate),
      r.refundReceived, r.status>>

\* The same fields as a row holds them.
RowFields(row) ==
    <<row.store_name, row.amount, row.purchase_date, row.return_date,
      row.returned_date, row.refund_received, StatusOf(row.refund_received)>>

\* The list holds the records of the store, each one once.
SameRecords ==
    /\ ItemIds(returns) = DOMAIN db
    /\ Len(returns) = Cardinality(DOMAIN db)

\* C28: when no operation is in flight, the in-memory list holds exactly the
\* records of the store, each with the field values of its row.
C28_ListMatchesStore ==
    ops = <<>> =>
        /\ SameRecords
        /\ \A k \in 1..Len(returns) :
                StoredFields(returns[k]) = RowFields(db[returns[k].id])

\* When no operation is in flight the list holds the ids of the store.
C28_SameIds == ops = <<>> => SameRecords

\* C29: the receipt image attached to the record selected in the detail
\* view is the image the store holds for that record's id: the result of a
\* load started for one record is never attached to another.
C29_ImageOfSelected ==
    (draft.dialog = "detail" /\ draft.open /\ draft.receiptImage # NoImage) =>
        /\ draft.item \in DOMAIN db
        /\ draft.receiptImage = db[draft.item].receipt_image

\* A load that resumes while the record it was started for is selected
\* attaches the image of that record.
C29_SameRecordLoad ==
    [][\A i \in 1..Len(ops) :
        (/\ ops[i].kind = "load" /\ ops[i].phase = "resp" /\ Ended(i)
         /\ ops[i].res = "ok" /\ draft.open /\ draft.item = ops[i].id
         /\ \A j \in 1..Len(ops) : j # i => OpKey(ops[j]) # OpKey(ops[i]))
            => draft'.receiptImage = db[ops[i].id].receipt_image]_vars

FrameHandlers == {"toggle", "complete", "returned", "edit"}

\* Invocation i resumes after its remote call has succeeded, and no other
\* invocation in flight is at the same point with the same snapshot.
SucceededResume(i) ==
    /\ ops[i].kind \in FrameHandlers
    /\ ops[i].phase = "resp" /\ ops[i].res = "ok"
    /\ Ended(i)
    /\ \A j \in 1..Len(ops) : j # i => OpKey(ops[j]) # OpKey(ops[i])

\* What the handler `kind` may change on the record it targets: r2 is r1 but
\* for the fields of that handler.
OnlyOwnFields(kind, r1, r2) ==
    CASE kind \in {"toggle", "complete"} ->
            r2 = [r1 EXCEPT !.refundReceived = r2.refundReceived,
                            !.status = r2.status]
      [] kind = "returned" ->
            r2 = [r1 EXCEPT !.returnedDate = r2.returnedDate]
      [] OTHER ->
            /\ r2.id = r1.id
            /\ r2.refundReceived = r1.refundReceived
            /\ r2.status = r1.status

\* The list after the step is the list before it but for the record `id`,
\* which differs only by the fields of the handler `kind`.
FrameKept(kind, id) ==
    /\ Len(returns') = Len(returns)
    /\ \A k \in 1..Len(returns) :
            IF returns[k].id # id
                THEN returns'[k] = returns[k]
                ELSE OnlyOwnFields(kind, returns[k], returns'[k])

\* C30: each successful toggleRefund, markComplete, markReturned or edit on
\* a record leaves every other record of the list as it was, and changes on
\* the targeted record only the fields of that operation.
C30_FrameOfRecordHandlers ==
    [][\A i \in 1..Len(ops) :
        SucceededResume(i) => FrameKept(ops[i].kind, ops[i].id)]_vars

\* The same, for a handler that resumes while the list is still the one of
\* the render it was invoked in.
C30_FrameWhenListUnchanged ==
    [][\A i \in 1..Len(ops) :
        (SucceededResume(i) /\ ops[i].snap = returns)
            => FrameKept(ops[i].kind, ops[i].id)]_vars

\* The rows of the store: a successful write of one of these handlers
\* changes the row of its record only.
C30_FrameOfRows ==
    [][\A i \in 1..Len(ops) :
        (/\ ops[i].kind \in FrameHandlers /\ Moved(i)
         /\ \A j \in 1..Len(ops) : j # i => OpKey(ops[j]) # OpKey(ops[i]))
            => /\ DOMAIN db' = DOMAIN db
               /\ \A id \in DOMAIN db : id # ops[i].id => db'[id] = db[id]]_vars

====
